---------------------------- MODULE Spec2Model ----------------------------
(***************************************************************************)
(* A model of the MatrixSSL binary-buffer engine (core/psbuf.c) and of the *)
(* ASN.1 primitive decoders (crypto/keyformat/asn1.c).                     *)
(*                                                                         *)
(* Memory is a sequence of bytes (naturals below 256); a pointer is an     *)
(* offset into it.  Pointer differences are 64-bit signed (LP64) and small *)
(* in every scenario, so they are plain integers; uint32_t values wrap     *)
(* modulo 2^32 and uint16_t values modulo 2^16 as in the code.             *)
(***************************************************************************)
EXTENDS Integers, Sequences, FiniteSets, TLC

VARIABLES
    pc,      \* position of the scenario being run
    mem,     \* ASN.1 decoders: the bytes in memory from the caller's pointer on
    size,    \* ASN.1 decoders: the declared input length
    res,     \* ASN.1 decoders: outcome of the decoder call
    heap,    \* buffers: the allocated regions, their bytes and their status
    dbs,     \* buffers: the open Dynamic Buffers, root first, each the master of the next
    pbs,     \* buffers: the open Parse Buffers, root first, each the master of the next
    out,     \* buffers: what the last call returned
    hist     \* buffers: history kept for the properties (never read by the code)

vars == <<pc, mem, size, res, heap, dbs, pbs, out, hist>>
asnvars == <<mem, size, res>>
bufvars == <<heap, dbs, pbs, out, hist>>

\* the buffer engine is not in use
BufIdle == heap = <<>> /\ dbs = <<>> /\ pbs = <<>> /\ out = <<>> /\ hist = <<>>

(***************************************************************************)
(* 32-bit unsigned values.  The model checker's integers are 32-bit signed *)
(* themselves, so a uint32_t is kept as its two 16-bit halves <<hi, lo>>   *)
(* and its arithmetic is done on the halves, wrapping as the C type does.  *)
(***************************************************************************)
H16 == 65536

\* a natural number below 2^31 as a uint32_t
WNat(n) == <<n \div H16, n % H16>>
\* (uint32_t) d for a signed difference d
WInt(d) ==
    IF d >= 0 THEN WNat(d)
    ELSE <<(H16 - 1) - (((-d) - 1) \div H16), (H16 - 1) - (((-d) - 1) % H16)>>
WLt(a, b) == a[1] < b[1] \/ (a[1] = b[1] /\ a[2] < b[2])
WAdd(a, b) ==
    LET lo == a[2] + b[2]
    IN  <<(a[1] + b[1] + (lo \div H16)) % H16, lo % H16>>
WNeg(a) == WAdd(<<(H16 - 1) - a[1], (H16 - 1) - a[2]>>, <<0, 1>>)
WSub(a, b) == WAdd(a, WNeg(b))
\* (a << 8) | b for a byte b
WShl8Or(a, b) == <<(a[1] % 256) * 256 + (a[2] \div 256), (a[2] % 256) * 256 + b>>
\* conversion of a uint32_t to int32_t (two's complement)
WToInt32(a) ==
    IF a[1] >= 32768 THEN (a[1] - H16) * H16 + a[2] ELSE a[1] * H16 + a[2]
\* the value as a natural number, for values below 2^31
WVal(a) == a[1] * H16 + a[2]
\* d < w for a signed 64-bit d and a uint32_t w (the usual conversions)
SLtW(d, w) == d < 0 \/ WLt(WNat(d), w)

Max(a, b) == IF a >= b THEN a ELSE b
Min(a, b) == IF a <= b THEN a ELSE b

\* the byte at offset i of memory m; a read past the modelled memory gives 0
ByteAt(m, i) == IF i >= 0 /\ i < Len(m) THEN m[i + 1] ELSE 0

(***************************************************************************)
(* Result codes and ASN.1 tag bytes (cryptoApi.h / asn1.h).                *)
(***************************************************************************)
PS_SUCCESS == "PS_SUCCESS"
PS_LIMIT_FAIL == "PS_LIMIT_FAIL"
PS_PARSE_FAIL == "PS_PARSE_FAIL"
ASN_UNKNOWN_LEN == "ASN_UNKNOWN_LEN"

\* rc < 0 in the code: the failure codes are the negative ones
IsFail(rc) == rc \in {PS_LIMIT_FAIL, PS_PARSE_FAIL}

ASN_INTEGER == 2
ASN_NULL == 5
ASN_OID == 6
ASN_ENUMERATED == 10
ASN_SEQUENCE == 16
ASN_SET == 17
ASN_CONSTRUCTED == 32

(***************************************************************************)
(* getAsnLength32.  c0 is *pp and sz the declared size (a uint32_t).  The  *)
(* result carries the return code, the cursor *pp after the call, *len (a  *)
(* uint32_t) and rd, the set of offsets the call dereferenced.             *)
(***************************************************************************)
\* the switch cases 1..4: the big-endian value of the n bytes at offset c
RECURSIVE BigEndian(_, _, _)
BigEndian(m, c, n) ==
    IF n = 0 THEN WNat(0)
    ELSE WShl8Or(BigEndian(m, c, n - 1), ByteAt(m, c + n - 1))

\* (mutant) the cursor is stored before the length is validated
LenFailAdvances(c0, rd) ==
    [rc |-> PS_LIMIT_FAIL, p |-> c0 + 1, len |-> WNat(0), rd |-> rd]

LenFail(c0, rd) ==
    [rc |-> PS_LIMIT_FAIL, p |-> c0, len |-> WNat(0), rd |-> rd]

\* lines 125-133: the final check against the bytes remaining (end - c)
LenTail(c0, sz, c, l, indefinite, rd) ==
    IF indefinite = 0 /\ WLt(WSub(sz, WNat(c - c0)), l)
    THEN LenFail(c0, rd)
    ELSE [rc |-> PS_SUCCESS, p |-> c, len |-> l, rd |-> rd]

getAsnLength32(m, c0, sz, indefinite) ==
    IF WLt(sz, WNat(1)) THEN LenFail(c0, {})
    ELSE
      LET b0 == ByteAt(m, c0)
          l0 == b0 % 128
          c1 == c0 + 1
      IN
      IF b0 >= 128
      THEN IF WLt(WSub(sz, WNat(1)), WNat(l0)) THEN LenFail(c0, {c0})
           ELSE IF l0 \in 1..4
                THEN LenTail(c0, sz, c1 + l0, BigEndian(m, c1, l0), indefinite,
                             {c0} \cup (c1 .. (c1 + l0 - 1)))
           ELSE IF l0 = 0 /\ indefinite # 0
                THEN [rc |-> ASN_UNKNOWN_LEN, p |-> c1,
                      len |-> WSub(sz, WNat(1)), rd |-> {c0}]
           ELSE LenFail(c0, {c0})
      ELSE LenTail(c0, sz, c1, WNat(l0), indefinite, {c0})

(***************************************************************************)
(* getAsnSequence32 / getAsnSet32 (sz is below 2^31 in every scenario).    *)
(***************************************************************************)
getAsnSequence32(m, p0, sz, indefinite) ==
    IF sz < 1
    THEN [rc |-> PS_PARSE_FAIL, p |-> p0, len |-> WNat(0), rd |-> {}]
    ELSE IF ByteAt(m, p0) # ASN_SEQUENCE + ASN_CONSTRUCTED
    THEN [rc |-> PS_PARSE_FAIL, p |-> p0, len |-> WNat(0), rd |-> {p0}]
    ELSE
      LET r == getAsnLength32(m, p0 + 1, WNat(sz - 1), indefinite)
          rd == {p0} \cup r.rd
      IN
      IF IsFail(r.rc) THEN [rc |-> r.rc, p |-> p0, len |-> r.len, rd |-> rd]
      ELSE IF indefinite = 0 /\ WLt(WSub(WNat(sz), WNat(r.p - p0)), r.len)
      THEN [rc |-> PS_LIMIT_FAIL, p |-> p0, len |-> r.len, rd |-> rd]
      ELSE [rc |-> r.rc, p |-> r.p, len |-> r.len, rd |-> rd]

getAsnSet32(m, p0, sz, indefinite) ==
    IF sz < 1
    THEN [rc |-> PS_PARSE_FAIL, p |-> p0, len |-> WNat(0), rd |-> {}]
    ELSE IF ByteAt(m, p0) # ASN_SET + ASN_CONSTRUCTED
    THEN [rc |-> PS_PARSE_FAIL, p |-> p0, len |-> WNat(0), rd |-> {p0}]
    ELSE
      LET r == getAsnLength32(m, p0 + 1, WNat(sz - 1), indefinite)
          rd == {p0} \cup r.rd
      IN
      IF IsFail(r.rc) THEN [rc |-> r.rc, p |-> p0, len |-> r.len, rd |-> rd]
      ELSE IF WLt(WNat(sz), WAdd(WNat(r.p - p0), r.len))
      THEN [rc |-> PS_LIMIT_FAIL, p |-> p0, len |-> r.len, rd |-> rd]
      ELSE [rc |-> r.rc, p |-> r.p, len |-> r.len, rd |-> rd]

(***************************************************************************)
(* getAsnInteger / getAsnEnumerated.                                       *)
(***************************************************************************)
\* the while loops: ui = (ui << 8) | (*p ^ flip), over the n bytes at p
RECURSIVE Accumulate(_, _, _, _)
Accumulate(m, p, n, flip) ==
    IF n = 0 THEN WNat(0)
    ELSE LET b == ByteAt(m, p + n - 1)
         IN  WShl8Or(Accumulate(m, p, n - 1, flip),
                     IF flip THEN 255 - b ELSE b)

\* (mutant) the increment of the two's complement is forgotten
NegValueNoIncrement(ui) == WToInt32(WNeg(ui))

\* lines 311-314: slen = ui; slen++; slen = -slen; *val = slen
NegValue(ui) == WToInt32(WNeg(WAdd(ui, WNat(1))))

\* lines 296-324, after the tag and the length are read
IntegerBody(m, p0, end, p, vlen, rd0) ==
    IF WLt(WNat(4), vlen) \/ WLt(WInt(end - p), vlen)
    THEN [rc |-> PS_LIMIT_FAIL, p |-> p0, val |-> 0, rd |-> rd0]
    ELSE
      LET n == WVal(vlen)
          rd == rd0 \cup {p} \cup (p .. (p + n - 1))
      IN
      IF ByteAt(m, p) >= 128
      THEN [rc |-> PS_SUCCESS, p |-> p + n,
            val |-> NegValue(Accumulate(m, p, n, TRUE)), rd |-> rd]
      ELSE [rc |-> PS_SUCCESS, p |-> p + n,
            val |-> WToInt32(Accumulate(m, p, n, FALSE)), rd |-> rd]

TaggedInteger(m, p0, len, tag) ==
    IF len < 1 THEN [rc |-> PS_PARSE_FAIL, p |-> p0, val |-> 0, rd |-> {}]
    ELSE IF ByteAt(m, p0) # tag
    THEN [rc |-> PS_PARSE_FAIL, p |-> p0, val |-> 0, rd |-> {p0}]
    ELSE
      LET r == getAsnLength32(m, p0 + 1, WNat(len - 1), 0) IN
      IF IsFail(r.rc)
      THEN [rc |-> r.rc, p |-> p0, val |-> 0, rd |-> {p0} \cup r.rd]
      ELSE IntegerBody(m, p0, p0 + len, r.p, r.len, {p0} \cup r.rd)

getAsnInteger(m, p0, len) == TaggedInteger(m, p0, len, ASN_INTEGER)

getAsnEnumerated(m, p0, len) == TaggedInteger(m, p0, len, ASN_ENUMERATED)

(***************************************************************************)
(* getAsnOID / getAsnAlgorithmIdentifier.  The identifier *oi is the raw   *)
(* byte sum; the lookup in the OID table (checkAsnOidDatabase) only        *)
(* re-reads the arc bytes and rewrites *oi, so it is left out.             *)
(***************************************************************************)
RECURSIVE ByteSum(_, _, _)
ByteSum(m, p, n) ==
    IF n = 0 THEN 0 ELSE ByteSum(m, p, n - 1) + ByteAt(m, p + n - 1)

OidRes(rc, p, oi, paramLen, rd) ==
    [rc |-> rc, p |-> p, oi |-> oi, paramLen |-> paramLen, rd |-> rd]

\* lines 482-508: p is just past the arcs, rd what has been read so far
OidParams(m, p0, len, end, p, oi, checkForParams, rd) ==
    IF checkForParams # 0
    THEN LET plen == len - (end - p)
             paramLen == (len - plen) % H16
             rd1 == rd \cup {p}
         IN  IF ByteAt(m, p) # ASN_NULL
             THEN OidRes(PS_SUCCESS, p, oi, paramLen, rd1)
             ELSE IF end - p < 2
             THEN OidRes(PS_LIMIT_FAIL, p0, oi, paramLen, rd1)
             ELSE IF paramLen < 2
             THEN OidRes(PS_LIMIT_FAIL, p0, oi, paramLen, rd1)
             ELSE OidRes(PS_SUCCESS, p + 2, oi, paramLen - 2, rd1)
    ELSE OidRes(PS_SUCCESS, p, oi, 0, rd)

getAsnOID(m, p0, len, checkForParams) ==
    LET end == p0 + len IN
    IF ByteAt(m, p0) # ASN_OID
    THEN OidRes(PS_PARSE_FAIL, p0, 0, 0, {p0})
    ELSE
      LET r == getAsnLength32(m, p0 + 1, WInt(end - (p0 + 1)), 0)
          rd == {p0} \cup r.rd
      IN
      IF IsFail(r.rc) THEN OidRes(r.rc, p0, 0, 0, rd)
      ELSE IF SLtW(end - r.p, r.len) THEN OidRes(PS_LIMIT_FAIL, p0, 0, 0, rd)
      ELSE IF end - r.p < 2 THEN OidRes(PS_LIMIT_FAIL, p0, 0, 0, rd)
      ELSE LET arcLen == WVal(r.len)
           IN  OidParams(m, p0, len, end, r.p + arcLen,
                         ByteSum(m, r.p, arcLen), checkForParams,
                         rd \cup (r.p .. (r.p + arcLen - 1)))

\* the cursor is stored from the local p whatever getAsnOID returned (line 349)
getAsnAlgorithmIdentifier(m, p0, len) ==
    IF len < 1 THEN OidRes(PS_PARSE_FAIL, p0, 0, 0, {})
    ELSE
      LET s == getAsnSequence32(m, p0, len, 0) IN
      IF IsFail(s.rc) THEN OidRes(s.rc, p0, 0, 0, s.rd)
      ELSE IF (p0 + len) - s.p < 1 THEN OidRes(PS_LIMIT_FAIL, p0, 0, 0, s.rd)
      ELSE LET o == getAsnOID(m, s.p, WVal(s.len), 1)
           IN  OidRes(o.rc, IF IsFail(o.rc) THEN s.p ELSE o.p, o.oi,
                      o.paramLen, s.rd \cup o.rd)

(***************************************************************************)
(* Inputs of the decoder scenarios.                                        *)
(***************************************************************************)
MaxContent == 2     \* longest run of free content bytes after a header
PadLen == 6         \* bytes of memory modelled behind the input

RECURSIVE Strings(_, _)
Strings(S, n) ==
    IF n = 0 THEN {<<>>}
    ELSE LET T == Strings(S, n - 1)
         IN  T \cup {Append(t, b) : t \in {u \in T : Len(u) = n - 1}, b \in S}

ContentBytes == {0, 127, 255}
PadBytes == {0, 5, 255}
TagFields == {<<>>, <<2>>, <<10>>, <<6>>, <<48>>, <<49>>}
LenFields ==
    { <<0>>, <<1>>, <<2>>, <<5>>, <<128>>, <<129, 1>>, <<129, 128>>,
      <<130, 0, 2>>, <<130, 1, 0>>, <<131, 0, 0, 1>>, <<132, 0, 0, 0, 2>>,
      <<133, 0, 0, 0, 0, 1>> }

\* two's-complement big-endian encoding of the int32 v in k bytes (arithmetic
\* shift right by 8 for the higher bytes)
RECURSIVE EncodeInt(_, _)
EncodeInt(v, k) ==
    IF k = 0 THEN <<>> ELSE Append(EncodeInt(v \div 256, k - 1), v % 256)

RECURSIVE Pow256(_)
Pow256(k) == IF k = 0 THEN 1 ELSE 256 * Pow256(k - 1)

\* v is representable in k bytes (every int32 is in 4)
Fits(v, k) ==
    k >= 4 \/ (v >= -(Pow256(k) \div 2) /\ v < Pow256(k) \div 2)
IntDER(v, k) == <<ASN_INTEGER, k>> \o EncodeInt(v, k)

IntVals ==
    { 0, 1, -1, 5, -6, 127, 128, -128, -129, 255, 256, 32767, 32768, -32768,
      -32769, 8388607, -8388608, 8388608, 2147483647, -2147483647,
      (-2147483647) - 1 }

IntInputs ==
    UNION {{IntDER(v, k) : k \in {j \in 1..4 : Fits(v, j)}} : v \in IntVals}
      \cup {<<ASN_INTEGER, 5, 0, 128, 0, 0, 0>>, <<ASN_INTEGER, 5, 255, 1, 2, 3, 4>>}

OidArcs == {<<>>, <<42>>, <<42, 134>>, <<1, 2, 3>>}
OidParamFields == {<<>>, <<5>>, <<5, 0>>, <<5, 0, 4>>, <<4, 0>>, <<48, 0>>}
OidInputs ==
    {<<ASN_OID, Len(a)>> \o a \o q : a \in OidArcs, q \in OidParamFields}
AlgIdInputs ==
    {<<48, Len(o) - d>> \o o : o \in OidInputs, d \in {0, 1}}
      \cup {<<48, 0, 6>>, <<48, 0, 6, 0>>, <<48, 1, 6, 0>>}

AsnInputs ==
    {t \o l \o c : t \in TagFields, l \in LenFields,
                   c \in Strings(ContentBytes, MaxContent)}
      \cup IntInputs \cup OidInputs \cup AlgIdInputs

Pad(b) == [i \in 1..PadLen |-> b]

(***************************************************************************)
(* Decoder scenario: one decoder is called on (mem, size) with *pp = 0.    *)
(***************************************************************************)
NoRes ==
    [fn |-> "none", flag |-> 0, rc |-> PS_SUCCESS, p |-> 0, len |-> WNat(0),
     val |-> 0, rd |-> {}]

LenRes(fn, flag, r) ==
    [fn |-> fn, flag |-> flag, rc |-> r.rc, p |-> r.p, len |-> r.len,
     val |-> 0, rd |-> r.rd]
IntRes(fn, r) ==
    [fn |-> fn, flag |-> 0, rc |-> r.rc, p |-> r.p, len |-> WNat(0),
     val |-> r.val, rd |-> r.rd]
\* for the OID decoders len holds *paramLen and val holds *oi
OidOut(fn, flag, r) ==
    [fn |-> fn, flag |-> flag, rc |-> r.rc, p |-> r.p,
     len |-> WNat(r.paramLen), val |-> r.oi, rd |-> r.rd]

InitAsn ==
    /\ pc = "call"
    /\ \E in \in AsnInputs, b \in PadBytes :
         /\ mem = in \o Pad(b)
         /\ size \in 0..Len(in)
    /\ res = NoRes
    /\ BufIdle

CallLength ==
    /\ pc = "call"
    /\ \E f \in {0, 1} :
         res' = LenRes("getAsnLength32", f, getAsnLength32(mem, 0, WNat(size), f))
    /\ pc' = "done"
    /\ UNCHANGED <<mem, size, heap, dbs, pbs, out, hist>>

CallSequence ==
    /\ pc = "call"
    /\ \E f \in {0, 1} :
         res' = LenRes("getAsnSequence32", f, getAsnSequence32(mem, 0, size, f))
    /\ pc' = "done"
    /\ UNCHANGED <<mem, size, heap, dbs, pbs, out, hist>>

CallSet ==
    /\ pc = "call"
    /\ \E f \in {0, 1} :
         res' = LenRes("getAsnSet32", f, getAsnSet32(mem, 0, size, f))
    /\ pc' = "done"
    /\ UNCHANGED <<mem, size, heap, dbs, pbs, out, hist>>

CallInteger ==
    /\ pc = "call"
    /\ res' = IntRes("getAsnInteger", getAsnInteger(mem, 0, size))
    /\ pc' = "done"
    /\ UNCHANGED <<mem, size, heap, dbs, pbs, out, hist>>

CallEnumerated ==
    /\ pc = "call"
    /\ res' = IntRes("getAsnEnumerated", getAsnEnumerated(mem, 0, size))
    /\ pc' = "done"
    /\ UNCHANGED <<mem, size, heap, dbs, pbs, out, hist>>

CallOID ==
    /\ pc = "call"
    /\ \E f \in {0, 1} : res' = OidOut("getAsnOID", f, getAsnOID(mem, 0, size, f))
    /\ pc' = "done"
    /\ UNCHANGED <<mem, size, heap, dbs, pbs, out, hist>>

CallAlgorithmIdentifier ==
    /\ pc = "call"
    /\ res' = OidOut("getAsnAlgorithmIdentifier", 1,
                     getAsnAlgorithmIdentifier(mem, 0, size))
    /\ pc' = "done"
    /\ UNCHANGED <<mem, size, heap, dbs, pbs, out, hist>>

NextAsn ==
    \/ CallLength
    \/ CallSequence
    \/ CallSet
    \/ CallInteger
    \/ CallEnumerated
    \/ CallOID
    \/ CallAlgorithmIdentifier

SpecAsn == InitAsn /\ [][NextAsn]_vars


(***************************************************************************)
(* Claims about the decoders (checked under SpecAsn).                      *)
(***************************************************************************)
IsPrefix(e, m) == Len(e) <= Len(m) /\ SubSeq(m, 1, Len(e)) = e

\* offset of the length field for the decoder that ran
LenFieldAt == IF res.fn = "getAsnLength32" THEN 0 ELSE 1
LenDecoders ==
    {"getAsnLength32", "getAsnSequence32", "getAsnSet32", "getAsnInteger",
     "getAsnEnumerated"}
\* the tag byte the decoder that ran expects ahead of the length field
TagOf(fn) ==
    CASE fn = "getAsnSequence32" -> ASN_SEQUENCE + ASN_CONSTRUCTED
      [] fn = "getAsnSet32" -> ASN_SET + ASN_CONSTRUCTED
      [] fn = "getAsnInteger" -> ASN_INTEGER
      [] fn = "getAsnEnumerated" -> ASN_ENUMERATED
      [] OTHER -> -1
\* the value of up to four big-endian length bytes, written digit by digit
DigitsValue(d) ==
    LET q == [i \in 1..(4 - Len(d)) |-> 0] \o d
    IN  <<q[1] * 256 + q[2], q[3] * 256 + q[4]>>
\* the first byte of a long-form length field with 1..4 length bytes
IsLongForm(b) == b \in 129..132
\* a long-form field at offset o of mem for which a shorter form exists
NonMinimalAt(o) ==
    /\ IsLongForm(ByteAt(mem, o))
    /\ \/ ByteAt(mem, o) = 129 /\ ByteAt(mem, o + 1) < 128
       \/ ByteAt(mem, o) > 129 /\ ByteAt(mem, o + 1) = 0

\* C1: every decoder dereferences only offsets 0..size-1 of its input
C1_ReadsWithinInput ==
    pc = "done" => \A i \in res.rd : i >= 0 /\ i < size

\* C7: a long-form length field for which a shorter form exists
\* (0x81 with a value below 128, a leading zero length byte) is refused by
\* getAsnLength32 and by the decoders that delegate to it (taken with the
\* indefinite flag off, the stricter mode)
C7_NonMinimalRefused ==
    ( /\ pc = "done"
      /\ res.fn \in LenDecoders
      /\ res.flag = 0
      /\ size > LenFieldAt
      /\ res.fn # "getAsnLength32" => ByteAt(mem, 0) = TagOf(res.fn)
      /\ NonMinimalAt(LenFieldAt) )
    => IsFail(res.rc)

\* C8: with the indefinite flag off getAsnLength32 returns PS_LIMIT_FAIL and
\* leaves the cursor alone for an empty input, a long-form count larger than
\* the bytes after it, a count above 4, the byte 0x80 and a declared length
\* larger than the bytes remaining; with the flag on, 0x80 gives
\* ASN_UNKNOWN_LEN, the remaining byte count as length and the cursor past it
C8_LengthBoundsAndIndefinite ==
    (pc = "done" /\ res.fn = "getAsnLength32")
    => LET b0 == ByteAt(mem, 0)
           cnt == b0 - 128
           limit ==
             \/ size = 0
             \/ b0 > 128 /\ cnt > size - 1
             \/ b0 > 132
             \/ b0 = 128
             \/ b0 < 128 /\ b0 > size - 1
             \/ /\ IsLongForm(b0)
                /\ cnt <= size - 1
                /\ WLt(WNat(size - 1 - cnt), DigitsValue(SubSeq(mem, 2, 1 + cnt)))
       IN  /\ (res.flag = 0 /\ limit) => (res.rc = PS_LIMIT_FAIL /\ res.p = 0)
           /\ (res.flag = 1 /\ size >= 1 /\ b0 = 128)
                => /\ res.rc = ASN_UNKNOWN_LEN
                   /\ res.len = WNat(size - 1)
                   /\ res.p = 1

C8_Witness ==
    /\ pc = "done"
    /\ res.fn = "getAsnLength32"
    /\ res.flag = 1
    /\ size >= 3
    /\ ByteAt(mem, 0) = 128
    /\ res.rc = ASN_UNKNOWN_LEN
    /\ res.len = WNat(size - 1)

\* C9: getAsnInteger on the DER INTEGER encoding of an int32 v in 1..4 content
\* bytes returns success, v itself and the cursor just past the content; with
\* fewer bytes in the input than the encoding declares, or with more than 4
\* content bytes declared, it returns PS_LIMIT_FAIL
C9_IntegerRoundTrip ==
    (pc = "done" /\ res.fn = "getAsnInteger")
    => /\ \A v \in IntVals, k \in 1..4 :
            (Fits(v, k) /\ IsPrefix(IntDER(v, k), mem))
            => IF size >= k + 2
               THEN res.rc = PS_SUCCESS /\ res.val = v /\ res.p = k + 2
               ELSE size >= 1 => res.rc = PS_LIMIT_FAIL
       /\ (size >= 1 /\ ByteAt(mem, 0) = ASN_INTEGER /\ ByteAt(mem, 1) \in 5..127)
            => res.rc = PS_LIMIT_FAIL

C9_Witness ==
    /\ pc = "done"
    /\ res.fn = "getAsnInteger"
    /\ IsPrefix(IntDER((-2147483647) - 1, 4), mem)
    /\ size = 6
    /\ res.rc = PS_SUCCESS
    /\ res.val = (-2147483647) - 1
    /\ res.p = 6


(***************************************************************************)
(* core/psbuf.c: memory.  An address is Stride * region + offset; region 0 *)
(* is never allocated, so address 0 is NULL.  A region is live from its    *)
(* allocation until it is freed; data handed in by a caller is "static".   *)
(***************************************************************************)
NULL == 0
Stride == 1048576           \* address distance between two regions
NoByte == 256               \* content of memory that was never written

Region(a) == a \div Stride
Offset(a) == a % Stride

\* the n bytes at address a can be accessed
Valid(h, a, n) ==
    \/ n = 0
    \/ /\ n > 0
       /\ a > 0
       /\ Region(a) \in 1..Len(h)
       /\ h[Region(a)].st \in {"live", "static"}
       /\ Offset(a) + n <= Len(h[Region(a)].bytes)

MemRead(h, a, n) ==
    IF n > 0 /\ Valid(h, a, n)
    THEN SubSeq(h[Region(a)].bytes, Offset(a) + 1, Offset(a) + n)
    ELSE <<>>

MemWrite(h, a, s) ==
    IF Len(s) > 0 /\ Valid(h, a, Len(s))
    THEN [h EXCEPT ![Region(a)].bytes =
              SubSeq(@, 1, Offset(a)) \o s \o SubSeq(@, Offset(a) + Len(s) + 1, Len(@))]
    ELSE h

\* A machine state M holds the heap, the chain of Dynamic Buffers, the
\* assertions and memory faults hit so far, and the value being returned.
Trap(M, cond, what) == IF cond THEN M ELSE [M EXCEPT !.trap = @ \cup {what}]

memmove(M, dst, src, n) ==
    IF n = 0 THEN M
    ELSE IF Valid(M.heap, dst, n) /\ Valid(M.heap, src, n)
         THEN [M EXCEPT !.heap = MemWrite(@, dst, MemRead(@, src, n))]
         ELSE Trap(M, FALSE, "memory")

memset(M, dst, c, n) ==
    IF n = 0 THEN M
    ELSE IF Valid(M.heap, dst, n)
         THEN [M EXCEPT !.heap = MemWrite(@, dst, [i \in 1..n |-> c])]
         ELSE Trap(M, FALSE, "memory")

\* psMalloc: a new region of n unwritten bytes, or NULL when ok is false
psMalloc(M, n, ok) ==
    IF ok
    THEN [M EXCEPT !.heap = Append(@, [st |-> "live", bytes |-> [i \in 1..n |-> NoByte]]),
                   !.loc = Stride * (Len(M.heap) + 1)]
    ELSE [M EXCEPT !.loc = NULL]

\* psFree: NULL is ignored; the region's bytes are gone afterwards
psFree(M, a) ==
    IF a = NULL THEN M
    ELSE IF Region(a) \in 1..Len(M.heap) /\ Offset(a) = 0 /\ M.heap[Region(a)].st = "live"
         THEN [M EXCEPT !.heap[Region(a)] = [st |-> "freed", bytes |-> <<>>]]
         ELSE Trap(M, FALSE, "free")

(***************************************************************************)
(* core/psbuf.c: Fixed Buffer operations.  A buffer structure is a record  *)
(* with the fields buf, start, end, size of psBuf_t and pool, err, master  *)
(* of psDynBuf_t / psParseBuf_t; master is the position of the master in   *)
(* the chain (0 for none).                                                 *)
(***************************************************************************)
psStaticAllocationsPool == "psStaticAllocationsPool"
NoPool == "NULL"

NullBuf(b) == [b EXCEPT !.buf = NULL, !.start = NULL, !.end = NULL, !.size = 0]

\* psBufInit on structure i of the chain
psBufInit(M, i, capacity, ok) ==
    LET A == psMalloc(M, capacity, ok)
    IN  [A EXCEPT !.dbs[i].buf = A.loc, !.dbs[i].start = A.loc, !.dbs[i].end = A.loc,
                  !.dbs[i].size = IF A.loc # NULL THEN capacity ELSE 0]

\* (mutant) the region is released whatever the pool
psBufUninitAnyPool(M, pool, i) ==
    LET F == psFree(M, M.dbs[i].buf)
    IN  [F EXCEPT !.dbs[i] = NullBuf(@)]

psBufUninit(M, pool, i) ==
    LET F == IF pool # psStaticAllocationsPool THEN psFree(M, M.dbs[i].buf) ELSE M
    IN  [F EXCEPT !.dbs[i] = NullBuf(@)]

\* returns the structure after the call and the location handed out
psBufAppendSize(b, sz) ==
    IF b.end + sz <= b.buf + b.size
    THEN [b |-> [b EXCEPT !.end = @ + sz], loc |-> b.end]
    ELSE [b |-> b, loc |-> NULL]

psBufReservePrepend(b, sz) ==
    IF b.end + sz <= b.buf + b.size
    THEN [b EXCEPT !.start = @ + sz, !.end = @ + sz]
    ELSE b

psBufPrependSize(b, sz) ==
    IF b.buf <= b.start /\ b.buf + sz <= b.start
    THEN [b |-> [b EXCEPT !.start = @ - sz], loc |-> b.start - sz]
    ELSE [b |-> b, loc |-> NULL]

(***************************************************************************)
(* core/psbuf.c: Dynamic Buffer.                                           *)
(***************************************************************************)
PS_DYNBUF_GROW == 256

DynZero ==
    [buf |-> NULL, start |-> NULL, end |-> NULL, size |-> 0,
     pool |-> NoPool, err |-> 0, master |-> 0]

\* the structure becomes the only one of the chain
psDynBufInit(M, pool, capacity, ok) ==
    LET A == psBufInit([M EXCEPT !.dbs = <<DynZero>>], 1, capacity, ok)
    IN  [A EXCEPT !.dbs[1].pool = pool,
                  !.dbs[1].err = IF A.loc = NULL THEN 1 ELSE 0,
                  !.dbs[1].master = 0]

psDynBufUninit(M, i) ==
    LET U == psBufUninit(M, M.dbs[i].pool, i)
    IN  [U EXCEPT !.dbs[i].err = 0, !.dbs[i].pool = NoPool, !.dbs[i].master = 0]

\* psBufDetach: the filled bytes move to a region of their own
psBufDetach(M, pool, i, ok) ==
    LET b   == M.dbs[i]
        len == b.end - b.start
        A   == psMalloc(M, IF len # 0 THEN len ELSE 1, ok)
        C   == IF A.loc # NULL THEN memmove(A, A.loc, b.start, len) ELSE A
    IN  [psBufUninit(C, pool, i) EXCEPT !.loc = A.loc]

psDynBufDetach(M, i, ok) ==
    IF M.dbs[i].err # 0
    THEN [psDynBufUninit(M, i) EXCEPT !.loc = NULL]
    ELSE [psBufDetach(M, M.dbs[i].pool, i, ok) EXCEPT !.dbs[i].pool = NoPool]

assert_subbuf(M, i) ==
    LET sub == M.dbs[i]
        db  == M.dbs[sub.master]
        A1  == Trap(M, sub.master # 0, "assert:192")
        A2  == Trap(A1, sub.pool = NoPool, "assert:197")
        A3  == Trap(A2, sub.buf >= db.start /\ sub.buf <= db.end, "assert:200")
        A4  == Trap(A3, /\ sub.buf + sub.size >= db.start
                        /\ sub.buf + sub.size <= db.end, "assert:201")
        A5  == memset(A4, sub.buf, 40, sub.start - sub.buf)
    IN  IF sub.master = 0 THEN Trap(A1, FALSE, "memory")
        ELSE memset(A5, sub.end, 41, sub.buf + sub.size - sub.end)

RECURSIVE psDynBufGrow(_, _, _, _, _)

\* (mutant) the source of the tail move forgets the head demand
TailSourceNoHead(me, offset_tail, head_sz, tail_sz) == me - offset_tail - tail_sz

\* line 244: where the master's bytes behind the sub-buffer's span lie before
\* they are moved, me being the master's new end
TailSource(me, offset_tail, head_sz, tail_sz) == me - offset_tail - head_sz - tail_sz

\* psDynBufGrow for a buffer with a master, once the master's own grow has
\* returned G (lines 240-270); db and ms are the buffer and its master as
\* they were on entry
GrowSubDone(G, db, ms, i, head_sz, tail_sz) ==
    LET headroom    == db.start - db.buf
        tailroom    == (db.buf + db.size) - db.end
        filled      == db.end - db.start
        offset      == db.buf - ms.start
        offset_tail == ms.end - (db.buf + db.size)
        me          == G.dbs[i - 1].end + head_sz + tail_sz
        nbuf        == G.dbs[i - 1].start + offset
        nstart      == nbuf + headroom + head_sz
    IN  IF G.loc # NULL
        THEN [assert_subbuf(
                memset(
                  memset(
                    [memmove(
                       memmove([G EXCEPT !.dbs[i - 1].end = me],
                               me - offset_tail,
                               TailSource(me, offset_tail, head_sz, tail_sz), offset_tail),
                       nstart, nstart - head_sz, IF head_sz > 0 THEN filled ELSE 0)
                     EXCEPT !.dbs[i].buf = nbuf, !.dbs[i].start = nstart,
                            !.dbs[i].end = nstart + filled,
                            !.dbs[i].size = head_sz + headroom + filled + tailroom + tail_sz],
                    nbuf, 60, head_sz + headroom),
                  nstart + filled, 62, tail_sz + tailroom),
                i)
              EXCEPT !.loc = G.loc]
        ELSE [assert_subbuf([G EXCEPT !.dbs[i].err = @ + 1], i) EXCEPT !.loc = NULL]

\* psDynBufGrow for a buffer with a master, up to the master's grow (228-239)
GrowSub(M, i, head_sz, tail_sz, ok) ==
    GrowSubDone(
        psDynBufGrow(
            memset(memset(assert_subbuf(M, i),
                          M.dbs[i].buf, 123, M.dbs[i].start - M.dbs[i].buf),
                   M.dbs[i].end, 125, (M.dbs[i].buf + M.dbs[i].size) - M.dbs[i].end),
            i - 1, 0, head_sz + tail_sz, ok),
        M.dbs[i], M.dbs[i - 1], i, head_sz, tail_sz)

\* (mutant) the region is given back when no larger one could be had
GrowRootFailedReleases(A, i) ==
    [psBufUninit(A, A.dbs[i].pool, i) EXCEPT !.dbs[i].err = @ + 1, !.loc = NULL]

\* lines 291-294: psBufInit returned NULL
GrowRootFailed(A, i) == [A EXCEPT !.dbs[i].err = @ + 1, !.loc = NULL]

\* psDynBufGrow for a buffer that owns its region (lines 273-296)
GrowRoot(M, i, head_sz0, tail_sz0, ok) ==
    LET db       == M.dbs[i]
        headroom == db.start - db.buf
        tailroom == (db.buf + db.size) - db.end
        filled   == db.end - db.start
        head_sz  == head_sz0 + headroom
        tail_sz  == tail_sz0 + tailroom
        cap      == head_sz + filled + tail_sz
        A   == psMalloc(M, cap, ok)
        new == [buf |-> A.loc, start |-> A.loc, end |-> A.loc, size |-> cap]
        P   == psBufAppendSize(psBufReservePrepend(new, head_sz), filled)
    IN  IF A.loc # NULL
        THEN [psBufUninit(memmove(Trap(A, P.loc # NULL, "assert:284"),
                                  P.loc, db.start, filled),
                          db.pool, i)
                EXCEPT !.dbs[i].buf = P.b.buf, !.dbs[i].start = P.b.start,
                       !.dbs[i].end = P.b.end, !.dbs[i].size = P.b.size,
                       !.loc = P.loc]
        ELSE GrowRootFailed(A, i)

psDynBufGrow(M, i, head_sz, tail_sz, ok) ==
    LET hs == IF head_sz # 0 /\ head_sz < PS_DYNBUF_GROW THEN PS_DYNBUF_GROW ELSE head_sz
        ts == IF tail_sz < PS_DYNBUF_GROW THEN PS_DYNBUF_GROW ELSE tail_sz
    IN  IF M.dbs[i].err # 0 THEN [M EXCEPT !.loc = NULL]
        ELSE IF M.dbs[i].master # 0 THEN GrowSub(M, i, hs, ts, ok)
        ELSE GrowRoot(M, i, hs, ts, ok)

\* the second psBufAppendSize / psBufPrependSize, after psDynBufGrow returned G
Retry(G, i, R, line) ==
    IF G.loc # NULL
    THEN Trap([G EXCEPT !.dbs[i] = R.b, !.loc = R.loc], R.loc # NULL, line)
    ELSE [G EXCEPT !.loc = NULL]

AppendRetry(G, i, sz) == Retry(G, i, psBufAppendSize(G.dbs[i], sz), "assert:305")

psDynBufAppendSize(M, i, sz, ok) ==
    LET F == psBufAppendSize(M.dbs[i], sz)
    IN  IF F.loc # NULL THEN [M EXCEPT !.dbs[i] = F.b, !.loc = F.loc]
        ELSE AppendRetry(psDynBufGrow(M, i, 0, sz, ok), i, sz)

psDynBufReservePrepend(M, i, sz) ==
    IF M.dbs[i].start = M.dbs[i].end
    THEN [Trap(M, M.dbs[i].start = M.dbs[i].end, "assert:139")
          EXCEPT !.dbs[i] = psBufReservePrepend(@, sz)]
    ELSE M

PrependRetry(G, i, sz) == Retry(G, i, psBufPrependSize(G.dbs[i], sz), "assert:367")

psDynBufPrependSize(M, i, sz, ok) ==
    LET F == psBufPrependSize(M.dbs[i], sz)
    IN  IF F.loc # NULL THEN [M EXCEPT !.dbs[i] = F.b, !.loc = F.loc]
        ELSE PrependRetry(psDynBufGrow(M, i, sz, 0, ok), i, sz)

\* the bytes stored at the location a call returned, if it returned one
StoreAt(M, bytes) ==
    IF M.loc # NULL THEN [M EXCEPT !.heap = MemWrite(@, M.loc, bytes)] ELSE M

\* the bytes psDynBufAppendUtf8 stores for ch <= 0x1FFFF
Utf8Bytes(ch) ==
    IF ch < 128 THEN <<ch>>
    ELSE IF ch <= 2047 THEN <<192 + (ch \div 64), 128 + (ch % 64)>>
    ELSE IF ch <= 65535
         THEN <<224 + (ch \div 4096), 128 + ((ch \div 64) % 64), 128 + (ch % 64)>>
    ELSE <<240 + (ch \div 262144), 128 + ((ch \div 4096) % 64),
           128 + ((ch \div 64) % 64), 128 + (ch % 64)>>

\* chr is an int; a negative one converts to an unsigned above 0x1FFFF
psDynBufAppendUtf8(M, i, chr, ok) ==
    IF chr < 0 \/ chr > 131071
    THEN [M EXCEPT !.dbs[i].err = @ + 1, !.loc = NULL]
    ELSE StoreAt(psDynBufAppendSize(M, i, Len(Utf8Bytes(chr)), ok), Utf8Bytes(chr))

\* psDynBufSubInit after psDynBufAppendSize returned A (lines 375-394);
\* sub0 is what the caller's structure held before the call
SubInitDone(A, i, sub0, capacity) ==
    LET b   == A.dbs[i].end - capacity
        sub == [buf |-> b, start |-> b, end |-> b, size |-> capacity,
                pool |-> NoPool, err |-> 0, master |-> i]
    IN  IF A.loc # NULL
        THEN [assert_subbuf(memset([A EXCEPT !.dbs = SubSeq(@, 1, i) \o <<sub>>],
                                   b, 35, capacity), i + 1)
                EXCEPT !.loc = A.loc]
        ELSE [A EXCEPT !.dbs = SubSeq(@, 1, i) \o
                                  <<[NullBuf(sub0) EXCEPT !.pool = NoPool, !.err = 1,
                                                          !.master = i]>>,
                       !.dbs[i].err = @ + 1,
                       !.loc = NULL]

psDynBufSubInit(M, i, sub0, capacity, ok) ==
    SubInitDone(psDynBufAppendSize(M, i, capacity, ok), i, sub0, capacity)

psDynBufSubInitAt(M, i, sub0, at, length) ==
    LET db  == M.dbs[i]
        len == db.end - db.start
        b   == db.start + at
        sub == [buf |-> b, start |-> b, end |-> b, size |-> length,
                pool |-> NoPool, err |-> 0, master |-> i]
    IN  IF db.err = 0 /\ at + length <= len
        THEN [assert_subbuf(memset([M EXCEPT !.dbs = SubSeq(@, 1, i) \o <<sub>>],
                                   b, 35, length), i + 1)
                EXCEPT !.loc = b]
        ELSE [M EXCEPT !.dbs = SubSeq(@, 1, i) \o
                                  <<[NullBuf(sub0) EXCEPT !.pool = NoPool,
                                                          !.err = sub0.err + 1,
                                                          !.master = i]>>,
                       !.dbs[i].err = @ + 1,
                       !.loc = NULL]

\* (mutant) the unused part of the reservation is not given back
SubFinishEndKeepsTotal(end, total, filled) == end

\* lines 444-445: the master's end after the sub-buffer is finished
SubFinishEnd(end, total, filled) == end - total + filled

\* (mutant) the bytes behind the sub-buffer stay where they were
SubFinishTailToStays(end, total, filled, offset_tail) == end - offset_tail

\* line 441: where the bytes behind the sub-buffer are moved to
SubFinishTailTo(end, total, filled, offset_tail) ==
    end - total + filled - offset_tail

\* the finished structure stays at position i of the chain, torn down
psDynBufSubFinish(M, i) ==
    LET sub    == M.dbs[i]
        m      == sub.master
        db     == M.dbs[m]
        total  == sub.size
        filled == sub.end - sub.start
        offset_tail == db.end - (sub.buf + sub.size)
        D == IF sub.err # 0
             THEN [M EXCEPT !.dbs[m].err = @ + sub.err]
             ELSE [memmove(
                     memmove(assert_subbuf(M, i), sub.buf, sub.start,
                             IF sub.buf # sub.start /\ filled > 0 THEN filled ELSE 0),
                     SubFinishTailTo(db.end, total, filled, offset_tail),
                     db.end - offset_tail,
                     IF offset_tail > 0 THEN offset_tail ELSE 0)
                   EXCEPT !.dbs[m].end = SubFinishEnd(@, total, filled)]
    IN  [psDynBufUninit([D EXCEPT !.dbs[i].buf = NULL], i)
            EXCEPT !.loc = IF sub.err # 0 THEN NULL ELSE sub.buf]

\* (mutant) a length of 128 still counts as short
len_of_tag_and_lenShortAt128(len) ==
    IF len[1] = 0 /\ len[2] <= 128 THEN 2
    ELSE IF len[1] = 0 /\ len[2] < 256 THEN 3
    ELSE IF len[1] = 0 THEN 4
    ELSE IF len[1] < 256 THEN 5
    ELSE 6

\* size_t values up to 2^32 - 1 as <<hi, lo>>
len_of_tag_and_len(len) ==
    IF len[1] = 0 /\ len[2] < 128 THEN 2
    ELSE IF len[1] = 0 /\ len[2] < 256 THEN 3
    ELSE IF len[1] = 0 THEN 4
    ELSE IF len[1] < 256 THEN 5
    ELSE 6

\* (mutant) the one-byte long form is marked 0x80
output_lenMarker80(len) ==
    IF len[1] = 0 /\ len[2] < 128 THEN <<len[2]>>
    ELSE IF len[1] = 0 /\ len[2] < 256 THEN <<128, len[2]>>
    ELSE IF len[1] = 0 THEN <<130, len[2] \div 256, len[2] % 256>>
    ELSE IF len[1] < 256 THEN <<131, len[1] % 256, len[2] \div 256, len[2] % 256>>
    ELSE <<132, (len[1] \div 256) % 256, len[1] % 256, len[2] \div 256, len[2] % 256>>

\* the bytes stored at target[1], target[2], ...
output_len(len) ==
    IF len[1] = 0 /\ len[2] < 128 THEN <<len[2]>>
    ELSE IF len[1] = 0 /\ len[2] < 256 THEN <<129, len[2]>>
    ELSE IF len[1] = 0 THEN <<130, len[2] \div 256, len[2] % 256>>
    ELSE IF len[1] < 256 THEN <<131, len[1] % 256, len[2] \div 256, len[2] % 256>>
    ELSE <<132, (len[1] \div 256) % 256, len[1] % 256, len[2] \div 256, len[2] % 256>>

\* psDynBufAppendAsn1TagGen after psDynBufAppendSize returned A (499-503)
TagStore(A, tag, bytes, extralen) ==
    IF A.loc # NULL
    THEN [A EXCEPT !.heap = MemWrite(MemWrite(@, A.loc, <<tag>> \o output_len(WNat(Len(bytes)))),
                                     A.loc + extralen, bytes)]
    ELSE A

psDynBufAppendAsn1TagGen(M, i, tag, bytes, ok) ==
    TagStore(psDynBufAppendSize(M, i, Len(bytes) + len_of_tag_and_len(WNat(Len(bytes))), ok),
             tag, bytes, len_of_tag_and_len(WNat(Len(bytes))))

\* psDynBufBeginConstructedTag after psDynBufSubInit returned S
BeginReserve(S, i) ==
    IF S.loc # NULL THEN [psDynBufReservePrepend(S, i, 4) EXCEPT !.loc = S.loc] ELSE S

psDynBufBeginConstructedTag(M, i, sub0, ok) ==
    BeginReserve(psDynBufSubInit(M, i, sub0, 20, ok), i + 1)

\* psDynBufEndConstructedTag after the header went in: W.loc is the target
EndFinish(W, i) == [psDynBufSubFinish(W, i) EXCEPT !.loc = W.loc]

psDynBufEndConstructedTag(M, i, tag, ok) ==
    EndFinish(
        StoreAt(psDynBufPrependSize(M, i,
                    len_of_tag_and_len(WNat(M.dbs[i].end - M.dbs[i].start)), ok),
                <<tag>> \o output_len(WNat(M.dbs[i].end - M.dbs[i].start))),
        i)

(***************************************************************************)
(* core/psbuf.c: Parse Buffer operations.  The machine state M holds the   *)
(* chain of parse structures in M.dbs, a structure's master being the one  *)
(* before it; M.loc is what the call returns.                              *)
(***************************************************************************)
PS_FAILURE == "PS_FAILURE"
PS_ARG_FAIL == "PS_ARG_FAIL"

\* returns the buffer fields and the result code
psBufFromStaticData(data, len) ==
    LET n == IF data = NULL THEN 0 ELSE len
    IN  [b  |-> [buf |-> data, start |-> data, end |-> data + n, size |-> n],
         rc |-> IF data # NULL THEN PS_SUCCESS ELSE PS_ARG_FAIL]

\* the structure becomes the only one of the chain
psParseBufFromStaticData(M, data, len) ==
    LET F == psBufFromStaticData(data, len)
    IN  [M EXCEPT !.dbs = <<[buf |-> F.b.buf, start |-> F.b.start, end |-> F.b.end,
                             size |-> F.b.size, pool |-> psStaticAllocationsPool,
                             err |-> IF F.rc # PS_SUCCESS THEN 1 ELSE 0,
                             master |-> 0]>>,
                  !.loc = F.rc]

\* 0x40000000 as <<hi, lo>>
PS_PARSE_MAXIMUM_TAG_CONTENT == <<16384, 0>>

\* (mutant) a long-form header needs more than 0x83 bytes
LongFormReadableAbove(bytes) == ~(bytes <= 131)

\* line 562: a long-form header is only looked at when 0x83 bytes are there
LongFormReadable(bytes) == ~(bytes < 131)

\* lines 588-594: the length bytes at address at, most significant first
RECURSIVE LenContent(_, _, _, _)
LenContent(h, at, lenlen, len_content) ==
    IF lenlen = 0 THEN len_content
    ELSE LenContent(h, at + 1, lenlen - 1, WShl8Or(len_content, MemRead(h, at, 1)[1]))

\* (mutant) the maximum is compared with the high half of the length only
TagLenOutHighHalf(len_content, len_hdr, bytes) ==
    IF len_content[1] > PS_PARSE_MAXIMUM_TAG_CONTENT[1] THEN [len |-> 0, hdr |-> 0]
    ELSE IF WVal(len_content) + len_hdr > bytes THEN [len |-> 0, hdr |-> 0]
    ELSE [len |-> WVal(len_content) + len_hdr, hdr |-> len_hdr]

\* psParseBufGetTagLen from line 596, with the content length read
TagLenOut(len_content, len_hdr, bytes) ==
    IF WLt(PS_PARSE_MAXIMUM_TAG_CONTENT, len_content) THEN [len |-> 0, hdr |-> 0]
    ELSE IF WVal(len_content) + len_hdr > bytes THEN [len |-> 0, hdr |-> 0]
    ELSE [len |-> WVal(len_content) + len_hdr, hdr |-> len_hdr]

\* returns len_out and what is stored to hdrLen_p (meaningful when len # 0)
psParseBufGetTagLen(h, pb, tag) ==
    LET bytes   == pb.end - pb.start
        ptr(k)  == MemRead(h, pb.start + k, 1)[1]
        long    == ptr(1) >= 128
        lenlen  == IF long THEN ptr(1) - 128 ELSE 1
        len_at  == IF long THEN 2 ELSE 1
    IN  IF bytes < 2 THEN [len |-> 0, hdr |-> 0]
        ELSE IF tag # 0 /\ ptr(0) # tag THEN [len |-> 0, hdr |-> 0]
        ELSE IF long /\ ~LongFormReadable(bytes) THEN [len |-> 0, hdr |-> 0]
        ELSE IF long /\ ptr(1) = 129 /\ ptr(2) < 128 THEN [len |-> 0, hdr |-> 0]
        ELSE IF long /\ ptr(1) = 130 /\ ptr(2) = 0 THEN [len |-> 0, hdr |-> 0]
        ELSE IF long /\ ptr(1) = 131 /\ ptr(2) = 0 THEN [len |-> 0, hdr |-> 0]
        ELSE IF long /\ ptr(1) = 132 /\ ptr(2) = 0 THEN [len |-> 0, hdr |-> 0]
        ELSE IF long /\ (ptr(1) = 128 \/ ptr(1) > 132) THEN [len |-> 0, hdr |-> 0]
        ELSE TagLenOut(LenContent(h, pb.start + len_at, lenlen, <<0, 0>>),
                       IF long THEN 2 + lenlen ELSE 2, bytes)

\* psParseBufTryReadTagSub on structure m once psParseBufGetTagLen returned
\* G (lines 645-666); content becomes structure m + 1 of the chain
TryReadTagSubDone(M, m, G) ==
    LET pb == M.dbs[m]
    IN  [M EXCEPT !.dbs = SubSeq(@, 1, m) \o
              <<IF G.len = 0
                THEN [buf |-> NULL, start |-> NULL, end |-> NULL, size |-> 0,
                      pool |-> NoPool, err |-> 1, master |-> m]
                ELSE [buf |-> pb.start + G.hdr, start |-> pb.start + G.hdr,
                      end |-> pb.start + G.hdr + (G.len - G.hdr),
                      size |-> G.len - G.hdr,
                      pool |-> NoPool, err |-> 0, master |-> m]>>,
                  !.loc = G.len]

psParseBufTryReadTagSub(M, m, tag) ==
    TryReadTagSubDone(M, m, psParseBufGetTagLen(M.heap, M.dbs[m], tag))

\* (mutant) the failure is not counted in the buffer that was read
ReadTagSubDoneNoCount(T, m) ==
    IF T.loc = 0
    THEN [T EXCEPT !.dbs[m + 1].buf = T.dbs[m].buf, !.dbs[m + 1].start = T.dbs[m].start,
                   !.dbs[m + 1].end = T.dbs[m].end, !.dbs[m + 1].size = T.dbs[m].size]
    ELSE T

\* psParseBufReadTagSub once psParseBufTryReadTagSub returned T (673-682)
ReadTagSubDone(T, m) ==
    IF T.loc = 0
    THEN [T EXCEPT !.dbs[m].err = @ + 1,
                   !.dbs[m + 1].buf = T.dbs[m].buf, !.dbs[m + 1].start = T.dbs[m].start,
                   !.dbs[m + 1].end = T.dbs[m].end, !.dbs[m + 1].size = T.dbs[m].size]
    ELSE T

psParseBufReadTagSub(M, m, tag) == ReadTagSubDone(psParseBufTryReadTagSub(M, m, tag), m)

\* psParseBufReadTagRef once psParseBufReadTagSub returned T (690-693); the
\* local structure content is structure m + 1, whose buf is copied to the
\* caller's ref when the tag was read
ReadTagRefDone(T, m) ==
    IF T.loc # 0 THEN [T EXCEPT !.dbs[m].start = @ + T.loc] ELSE T

psParseBufReadTagRef(M, m, tag) == ReadTagRefDone(psParseBufReadTagSub(M, m, tag), m)

psParseBufCheckState(pb) == IF pb.err = 0 THEN PS_SUCCESS ELSE PS_FAILURE

\* (mutant) the master advances only past what was read from the child
FinishAdvanceRead(pb) == pb.start

\* line 759: the master's read cursor after a child without errors
FinishAdvance(pb) == pb.buf + pb.size

\* the finished structure stays at position k of the chain, torn down
psParseBufFinish(M, k) ==
    LET pb == M.dbs[k]
        m  == pb.master
    IN  [psBufUninit(
            IF m = 0 THEN M
            ELSE IF pb.err # 0
                 THEN [M EXCEPT !.dbs[m].err = @ + 1, !.dbs[k].buf = NULL]
                 ELSE [M EXCEPT !.dbs[m].start = FinishAdvance(pb), !.dbs[k].buf = NULL],
            pb.pool, k)
         EXCEPT !.dbs[k].master = 0, !.dbs[k].err = 0, !.dbs[k].pool = NoPool,
                !.loc = psParseBufCheckState(pb)]

\* (mutant) an error of the cancelled structure is counted in its master
psParseBufCancelCounts(M, k) ==
    [psBufUninit(IF M.dbs[k].master # 0
                 THEN [M EXCEPT !.dbs[k].buf = NULL,
                                !.dbs[M.dbs[k].master].err =
                                    IF M.dbs[k].err # 0 THEN @ + 1 ELSE @]
                 ELSE M,
                 M.dbs[k].pool, k)
     EXCEPT !.dbs[k].master = 0, !.dbs[k].err = 0, !.dbs[k].pool = NoPool]

\* the cancelled structure stays at position k of the chain, torn down
psParseBufCancel(M, k) ==
    [psBufUninit(IF M.dbs[k].master # 0 THEN [M EXCEPT !.dbs[k].buf = NULL] ELSE M,
                 M.dbs[k].pool, k)
     EXCEPT !.dbs[k].master = 0, !.dbs[k].err = 0, !.dbs[k].pool = NoPool]

\* psParseBufTrySkipTag / psParseBufSkipTag once the tag was read into the
\* local structure sub, which is gone when the call returns
SkipTagDone(T, m) ==
    IF T.loc # 0
    THEN [psParseBufFinish(T, m + 1) EXCEPT !.dbs = SubSeq(@, 1, m), !.loc = T.loc]
    ELSE [T EXCEPT !.dbs = SubSeq(@, 1, m)]

psParseBufTrySkipTag(M, m, tag) == SkipTagDone(psParseBufTryReadTagSub(M, m, tag), m)

psParseBufSkipTag(M, m, tag) == SkipTagDone(psParseBufReadTagSub(M, m, tag), m)

(***************************************************************************)
(* The caller of the Dynamic Buffer.  Calls go to the innermost open       *)
(* buffer of the chain; the bytes the caller stores at a returned location *)
(* are part of the step.  hist.exp holds, per open buffer, what the caller *)
(* has put into it: c before the span of its open sub-buffer (everything   *)
(* when it has none), z behind that span, and how it was opened (how, with *)
(* the reservation cap).  hist.fin is the same for the sub-buffer finished *)
(* last, with p and z the master's content around it, or for the TLV       *)
(* appended last, with c its content and cap its tag.  hist.nul tells that *)
(* a call that hands out a location has returned none.  out.pre is the     *)
(* chain as it was before the call.                                        *)
(***************************************************************************)
MEM_POOL == "pool"

Top == Len(dbs)
Cur == [heap |-> heap, dbs |-> dbs, trap |-> hist.trap, loc |-> NULL]
NoOut == [op |-> "none", i |-> 0, arg |-> 0, loc |-> NULL, pre |-> <<>>]
Opened(how, cap) == [c |-> <<>>, z |-> <<>>, how |-> how, cap |-> cap]
NoFin == [p |-> <<>>, c |-> <<>>, z |-> <<>>, how |-> "none", cap |-> 0]
HistZero == [trap |-> {}, exp |-> <<>>, fin |-> NoFin, nextb |-> 0, n |-> 0, nul |-> FALSE]

\* the state before the caller's first call
InitBuf ==
    /\ pc = "new"
    /\ mem = <<>> /\ size = 0 /\ res = NoRes
    /\ heap = <<>> /\ dbs = <<>> /\ pbs = <<>>
    /\ out = NoOut /\ hist = HistZero

\* sz bytes the caller has not written before; none is a marker byte of the
\* debugging fills or the value of unwritten memory
Fresh(sz) == [k \in 1..sz |-> 128 + ((hist.nextb + k) % 100)]

\* the filled bytes of a buffer, as they are in memory
Filled(h, b) == MemRead(h, b.start, b.end - b.start)

\* the calls that hand out a location
LocOps == {"appendSize", "prependSize", "appendUtf8", "appendAsn1Tag", "subInit", "subInitAt"}

Commit(M, op, arg, e, f, used) ==
    /\ heap' = M.heap
    /\ dbs' = M.dbs
    /\ out' = [op |-> op, i |-> Top, arg |-> arg, loc |-> M.loc, pre |-> dbs]
    /\ hist' = [trap |-> M.trap, exp |-> e, fin |-> f,
                nextb |-> hist.nextb + used, n |-> hist.n + 1,
                nul |-> hist.nul \/ (op \in LocOps /\ M.loc = NULL)]

\* the content of the innermost buffer after bytes went to its end or front
Appended(M, bytes) ==
    IF M.loc # NULL THEN [hist.exp EXCEPT ![Top].c = @ \o bytes] ELSE hist.exp
Prepended(M, bytes) ==
    IF M.loc # NULL THEN [hist.exp EXCEPT ![Top].c = bytes \o @] ELSE hist.exp

DoInit(capacity, ok) ==
    \E M \in {psDynBufInit(Cur, MEM_POOL, capacity, ok)} :
        Commit(M, "init", capacity, <<Opened("init", capacity)>>, hist.fin, 0)

DoAppendSize(sz, ok) ==
    \E M \in {StoreAt(psDynBufAppendSize(Cur, Top, sz, ok), Fresh(sz))} :
        Commit(M, "appendSize", sz, Appended(M, Fresh(sz)), hist.fin, sz)

DoPrependSize(sz, ok) ==
    \E M \in {StoreAt(psDynBufPrependSize(Cur, Top, sz, ok), Fresh(sz))} :
        Commit(M, "prependSize", sz, Prepended(M, Fresh(sz)), hist.fin, sz)

DoReservePrepend(sz) ==
    \E M \in {psDynBufReservePrepend(Cur, Top, sz)} :
        Commit(M, "reservePrepend", sz, hist.exp, hist.fin, 0)

DoAppendUtf8(chr, ok) ==
    \E M \in {psDynBufAppendUtf8(Cur, Top, chr, ok)} :
        Commit(M, "appendUtf8", chr, Appended(M, Utf8Bytes(chr)), hist.fin, 0)

DoAppendAsn1Tag(tag, bytes, ok) ==
    \E M \in {psDynBufAppendAsn1TagGen(Cur, Top, tag, bytes, ok)} :
        Commit(M, "appendAsn1Tag", Len(bytes),
               Appended(M, <<tag>> \o output_len(WNat(Len(bytes))) \o bytes),
               IF M.loc # NULL
               THEN [p |-> hist.exp[Top].c, c |-> bytes, z |-> <<>>,
                     how |-> "appendAsn1Tag", cap |-> tag]
               ELSE hist.fin, 0)

DoSubInit(sub0, capacity, ok) ==
    \E M \in {psDynBufSubInit(Cur, Top, sub0, capacity, ok)} :
        Commit(M, "subInit", capacity, hist.exp \o <<Opened("subInit", capacity)>>,
               hist.fin, 0)

\* the content of the master splits around the span given to the sub-buffer
SplitAt(M, at, length) ==
    LET e == hist.exp[Top].c
    IN  IF M.loc # NULL
        THEN [hist.exp EXCEPT ![Top].c = SubSeq(e, 1, at),
                              ![Top].z = SubSeq(e, at + length + 1, Len(e))]
        ELSE hist.exp

DoSubInitAt(sub0, at, length) ==
    \E M \in {psDynBufSubInitAt(Cur, Top, sub0, at, length)} :
        Commit(M, "subInitAt", at,
               SplitAt(M, at, length) \o <<Opened("subInitAt", length)>>, hist.fin, 0)

\* the content of the sub-buffer takes the place of its span in the master
Joined ==
    LET e == hist.exp
    IN  [SubSeq(e, 1, Top - 1) EXCEPT
            ![Top - 1].c = e[Top - 1].c \o e[Top].c \o e[Top - 1].z,
            ![Top - 1].z = <<>>]

\* the finished structure leaves the chain
DoSubFinish ==
    \E M \in {psDynBufSubFinish(Cur, Top)} :
        Commit([M EXCEPT !.dbs = SubSeq(@, 1, Top - 1)], "subFinish", dbs[Top].err,
               Joined,
               [p |-> hist.exp[Top - 1].c, c |-> hist.exp[Top].c,
                z |-> hist.exp[Top - 1].z, how |-> hist.exp[Top].how,
                cap |-> hist.exp[Top].cap], 0)

DoUninit ==
    \E M \in {psDynBufUninit(Cur, Top)} : Commit(M, "uninit", 0, hist.exp, hist.fin, 0)

DoDetach(ok) ==
    \E M \in {psDynBufDetach(Cur, Top, ok)} : Commit(M, "detach", 0, hist.exp, hist.fin, 0)

(***************************************************************************)
(* SpecDyn: a caller that makes up to MaxOps arbitrary calls on a Dynamic  *)
(* Buffer and its sub-buffers; every allocation may fail.                  *)
(***************************************************************************)
MaxOps == 3

DynCapacities == {0, 4}
DynSizes == {0, 3, 300}
DynChars == {65, 2047, 8364, 131071, 131072, -1}
DynContents == {<<>>, <<1, 2>>}
\* what a structure on the caller's stack can hold before it is initialised
SubGarbage == {[DynZero EXCEPT !.err = e] : e \in {-2, -1, 0, 7}}

CanCall == pc = "open" /\ hist.n <= MaxOps

DynInit ==
    /\ pc = "new"
    /\ \E capacity \in DynCapacities, ok \in BOOLEAN : DoInit(capacity, ok)
    /\ pc' = "open"
    /\ UNCHANGED <<asnvars, pbs>>

DynAppendSize ==
    /\ CanCall
    /\ \E sz \in DynSizes, ok \in BOOLEAN : DoAppendSize(sz, ok)
    /\ UNCHANGED <<pc, asnvars, pbs>>

DynPrependSize ==
    /\ CanCall
    /\ \E sz \in DynSizes, ok \in BOOLEAN : DoPrependSize(sz, ok)
    /\ UNCHANGED <<pc, asnvars, pbs>>

DynReservePrepend ==
    /\ CanCall
    /\ \E sz \in DynSizes : DoReservePrepend(sz)
    /\ UNCHANGED <<pc, asnvars, pbs>>

DynAppendUtf8 ==
    /\ CanCall
    /\ \E chr \in DynChars, ok \in BOOLEAN : DoAppendUtf8(chr, ok)
    /\ UNCHANGED <<pc, asnvars, pbs>>

DynAppendAsn1Tag ==
    /\ CanCall
    /\ \E bytes \in DynContents, ok \in BOOLEAN : DoAppendAsn1Tag(4, bytes, ok)
    /\ UNCHANGED <<pc, asnvars, pbs>>

DynSubInit ==
    /\ CanCall
    /\ \E sub0 \in SubGarbage, capacity \in DynCapacities, ok \in BOOLEAN :
         DoSubInit(sub0, capacity, ok)
    /\ UNCHANGED <<pc, asnvars, pbs>>

DynSubInitAt ==
    /\ CanCall
    /\ \E sub0 \in SubGarbage, at \in {0, 1}, length \in {1, 2} :
         DoSubInitAt(sub0, at, length)
    /\ UNCHANGED <<pc, asnvars, pbs>>

DynSubFinish ==
    /\ CanCall
    /\ Top >= 2
    /\ DoSubFinish
    /\ UNCHANGED <<pc, asnvars, pbs>>

DynUninit ==
    /\ CanCall
    /\ Top = 1
    /\ DoUninit
    /\ pc' = "closed"
    /\ UNCHANGED <<asnvars, pbs>>

DynDetach ==
    /\ CanCall
    /\ Top = 1
    /\ \E ok \in BOOLEAN : DoDetach(ok)
    /\ pc' = "closed"
    /\ UNCHANGED <<asnvars, pbs>>

NextDyn ==
    \/ DynInit
    \/ DynAppendSize
    \/ DynPrependSize
    \/ DynReservePrepend
    \/ DynAppendUtf8
    \/ DynAppendAsn1Tag
    \/ DynSubInit
    \/ DynSubInitAt
    \/ DynSubFinish
    \/ DynUninit
    \/ DynDetach

SpecDyn == InitBuf /\ [][NextDyn]_vars

(***************************************************************************)
(* Claims about the Dynamic Buffer's error count (checked under SpecDyn).  *)
(***************************************************************************)
WriteOps == {"appendSize", "prependSize", "reservePrepend", "appendUtf8", "appendAsn1Tag"}

\* the call just made tore down buffer k of the chain
TornDown(k) == out.op \in {"uninit", "detach", "subFinish"} /\ k = out.i

\* C2: once the error count of a Dynamic Buffer is non-zero, every later
\* appendSize, prependSize, reservePrepend, appendUtf8 and appendAsn1Tag on it
\* (taken for calls that ask for at least one byte) returns no location and
\* leaves its cursors, capacity and filled bytes as they were, even when it
\* has room; and the error count of a buffer does not return to zero before
\* uninit, detach or subFinish tears it down
C2_ErrorLatches ==
    /\ ( /\ out.op \in WriteOps
         /\ out.op \in {"appendSize", "prependSize", "reservePrepend"} => out.arg > 0
         /\ out.pre[out.i].err # 0 )
       => /\ out.loc = NULL
          /\ dbs[out.i].buf = out.pre[out.i].buf
          /\ dbs[out.i].start = out.pre[out.i].start
          /\ dbs[out.i].end = out.pre[out.i].end
          /\ dbs[out.i].size = out.pre[out.i].size
    /\ \A k \in 1..Len(out.pre) :
         (out.pre[k].err # 0 /\ ~TornDown(k)) => dbs[k].err # 0

(***************************************************************************)
(* SpecSub: a caller that fills a Dynamic Buffer, opens a sub-buffer with  *)
(* psDynBufSubInit or psDynBufSubInitAt, appends to it and finishes it.    *)
(***************************************************************************)
MaxSubOps == 6

SubReservations == {0, 1, 3, 300}

SubStart ==
    /\ pc = "new"
    /\ \E capacity \in {0, 4, 300}, ok \in BOOLEAN : DoInit(capacity, ok)
    /\ pc' = "parent"
    /\ UNCHANGED <<asnvars, pbs>>

SubFill ==
    /\ pc = "parent"
    /\ \E sz \in {2, 300}, ok \in BOOLEAN : DoAppendSize(sz, ok)
    /\ pc' = "filled"
    /\ UNCHANGED <<asnvars, pbs>>

SubOpen ==
    /\ pc \in {"parent", "filled"}
    /\ \E sub0 \in SubGarbage, capacity \in SubReservations, ok \in BOOLEAN :
         DoSubInit(sub0, capacity, ok)
    /\ pc' = "child"
    /\ UNCHANGED <<asnvars, pbs>>

\* the sub-buffer takes a span of what the parent holds
SubOpenAt ==
    /\ pc \in {"parent", "filled"}
    /\ \E sub0 \in SubGarbage, at \in {0, 1, 2}, length \in {0, 1, 2, 300} :
         DoSubInitAt(sub0, at, length)
    /\ pc' = "child"
    /\ UNCHANGED <<asnvars, pbs>>

SubWrite ==
    /\ pc = "child"
    /\ hist.n < MaxSubOps
    /\ \E sz \in {1, 2, 300}, ok \in BOOLEAN : DoAppendSize(sz, ok)
    /\ UNCHANGED <<pc, asnvars, pbs>>

SubClose ==
    /\ pc = "child"
    /\ DoSubFinish
    /\ pc' = "joined"
    /\ UNCHANGED <<asnvars, pbs>>

NextSub ==
    \/ SubStart
    \/ SubFill
    \/ SubOpen
    \/ SubOpenAt
    \/ SubWrite
    \/ SubClose

SpecSub == InitBuf /\ [][NextSub]_vars

\* C3: for a parent with content P, subInit(S), appending k <= S bytes C to
\* the child and subFinish leave the parent's filled content equal to P
\* followed by C with its write cursor right behind C, whatever S >= k was
C3_SubInitAppendFinish ==
    ( /\ pc = "joined"
      /\ hist.fin.how = "subInit"
      /\ out.pre[2].err = 0
      /\ Len(hist.fin.c) <= hist.fin.cap )
    => /\ Filled(heap, dbs[1]) = hist.fin.p \o hist.fin.c
       /\ dbs[1].end = dbs[1].start + Len(hist.fin.p) + Len(hist.fin.c)

C3_Witness ==
    /\ pc = "joined"
    /\ hist.fin.how = "subInit"
    /\ out.pre[2].err = 0
    /\ Len(hist.fin.p) > 0
    /\ Len(hist.fin.c) = 2
    /\ hist.fin.cap = 3
    /\ Filled(heap, dbs[1]) = hist.fin.p \o hist.fin.c

(***************************************************************************)
(* SpecNest: a caller that opens a sub-buffer in a root buffer and a       *)
(* second one in the first, writing into each buffer before it opens the   *)
(* next, and then appends and prepends to the innermost one for as long as *)
(* the calls succeed.                                                      *)
(***************************************************************************)
MaxNestOps == 7

NestDepth == 3

NestClean == \A k \in 1..Top : dbs[k].err = 0

NestStart ==
    /\ pc = "new"
    /\ \E capacity \in {0, 4}, ok \in BOOLEAN : DoInit(capacity, ok)
    /\ pc' = "open"
    /\ UNCHANGED <<asnvars, pbs>>

NestFill ==
    /\ pc = "open" /\ Top < NestDepth /\ NestClean
    /\ hist.exp[Top].c = <<>>
    /\ \E ok \in BOOLEAN : DoAppendSize(3, ok)
    /\ UNCHANGED <<pc, asnvars, pbs>>

NestOpen ==
    /\ pc = "open" /\ Top < NestDepth /\ NestClean
    /\ \E sub0 \in SubGarbage, capacity \in {0, 2}, ok \in BOOLEAN :
         DoSubInit(sub0, capacity, ok)
    /\ UNCHANGED <<pc, asnvars, pbs>>

NestOpenAt ==
    /\ pc = "open" /\ Top < NestDepth /\ NestClean
    /\ \E sub0 \in SubGarbage : DoSubInitAt(sub0, 1, 1)
    /\ UNCHANGED <<pc, asnvars, pbs>>

NestAppend ==
    /\ pc = "open" /\ Top = NestDepth /\ NestClean
    /\ hist.n < MaxNestOps
    /\ \E sz \in {1, 300}, ok \in BOOLEAN : DoAppendSize(sz, ok)
    /\ UNCHANGED <<pc, asnvars, pbs>>

NestPrepend ==
    /\ pc = "open" /\ Top = NestDepth /\ NestClean
    /\ hist.n < MaxNestOps
    /\ \E sz \in {2, 300}, ok \in BOOLEAN : DoPrependSize(sz, ok)
    /\ UNCHANGED <<pc, asnvars, pbs>>

\* head room reserved in the innermost buffer before anything is written
NestReserve ==
    /\ pc = "open" /\ Top = NestDepth /\ NestClean
    /\ hist.n < MaxNestOps
    /\ hist.exp[Top].c = <<>>
    /\ DoReservePrepend(1)
    /\ UNCHANGED <<pc, asnvars, pbs>>

NextNest ==
    \/ NestStart
    \/ NestFill
    \/ NestOpen
    \/ NestOpenAt
    \/ NestReserve
    \/ NestAppend
    \/ NestPrepend

SpecNest == InitBuf /\ [][NextNest]_vars

\* C4: with a sub-buffer S1 open in a root R and S2 open in S1, after any
\* successful appendSize / prependSize calls on S2, growing or not, the bytes
\* written in R before S1 and in S1 before S2, the bytes of each master behind
\* its sub-buffer's span and S2's own content are all as they were written,
\* in the same order, each sub-buffer's span lying between them
C4_NestedGrowPreserves ==
    (Top = NestDepth /\ NestClean)
    => /\ Filled(heap, dbs[Top]) = hist.exp[Top].c
       /\ \A k \in 1..(Top - 1) :
            /\ MemRead(heap, dbs[k].start, Len(hist.exp[k].c)) = hist.exp[k].c
            /\ dbs[k + 1].buf = dbs[k].start + Len(hist.exp[k].c)
            /\ MemRead(heap, dbs[k + 1].buf + dbs[k + 1].size, Len(hist.exp[k].z))
                 = hist.exp[k].z
            /\ dbs[k].end = dbs[k + 1].buf + dbs[k + 1].size + Len(hist.exp[k].z)

C4_Witness ==
    /\ Top = NestDepth /\ NestClean
    /\ out.op = "prependSize" /\ out.loc # NULL
    /\ dbs[Top].size > out.pre[Top].size
    /\ Len(hist.exp[Top].c) >= 600
    /\ \A k \in 1..(Top - 1) : hist.exp[k].c # <<>> /\ hist.exp[k].z # <<>>
    /\ MemRead(heap, dbs[1].start, dbs[2].buf - dbs[1].start) = hist.exp[1].c
    /\ MemRead(heap, dbs[3].buf + dbs[3].size, 1) = hist.exp[2].z

(***************************************************************************)
(* The caller of the Parse Buffer.  Calls go to the innermost structure of *)
(* the chain pbs; out.pre is that chain as it was before the call.  For a  *)
(* structure opened on a tag, hist.exp holds in cap the address at which   *)
(* the tag it was opened on ends in its master, and in c what the decoders *)
(* called on the structure returned; hist.fin holds both for the structure *)
(* closed last, with the call that closed it in z.                         *)
(***************************************************************************)
ParseCur == [heap |-> heap, dbs |-> pbs, trap |-> hist.trap, loc |-> NULL]

ParseCommit(M, op, arg, e, f) ==
    /\ heap' = M.heap
    /\ pbs' = M.dbs
    /\ out' = [op |-> op, i |-> Len(pbs), arg |-> arg, loc |-> M.loc, pre |-> pbs]
    /\ hist' = [hist EXCEPT !.trap = M.trap, !.exp = e, !.fin = f, !.n = @ + 1]

(***************************************************************************)
(* SpecTag: a caller that appends one TLV to a new Dynamic Buffer and      *)
(* parses the bytes it produced.                                           *)
(***************************************************************************)
MaxTagOps == 5

TagTags == {1, 4, 255}
TagLens == {0, 1, 127, 128, 129, 130, 255, 256, 300, 65535, 65536}
TagContent(n) == [k \in 1..n |-> (k * 37 + n) % 256]

TagStart ==
    /\ pc = "new"
    /\ \E capacity \in {0, 4, 300}, ok \in BOOLEAN : DoInit(capacity, ok)
    /\ pc' = "open"
    /\ UNCHANGED <<asnvars, pbs>>

TagAppend ==
    /\ pc = "open"
    /\ \E tag \in TagTags, n \in TagLens, ok \in BOOLEAN :
         DoAppendAsn1Tag(tag, TagContent(n), ok)
    /\ pc' = "written"
    /\ UNCHANGED <<asnvars, pbs>>

TagParse ==
    /\ pc = "written"
    /\ \E M \in {psParseBufFromStaticData(ParseCur, dbs[1].start,
                                          dbs[1].end - dbs[1].start)} :
         ParseCommit(M, "fromStaticData", 0, hist.exp, hist.fin)
    /\ pc' = "parsing"
    /\ UNCHANGED <<asnvars, dbs>>

TagGetLen ==
    /\ pc = "parsing"
    /\ hist.n < MaxTagOps
    /\ \E tag \in TagTags \cup {0} :
         ParseCommit([ParseCur EXCEPT !.loc = psParseBufGetTagLen(heap, pbs[1], tag).len],
                     "getTagLen", tag, hist.exp, hist.fin)
    /\ UNCHANGED <<pc, asnvars, dbs>>

TagReadSub ==
    /\ pc = "parsing"
    /\ \E tag \in TagTags \cup {0} :
         \E M \in {psParseBufTryReadTagSub(ParseCur, 1, tag)} :
             ParseCommit(M, "tryReadTagSub", tag, hist.exp, hist.fin)
    /\ pc' = "read"
    /\ UNCHANGED <<asnvars, dbs>>

NextTag ==
    \/ TagStart
    \/ TagAppend
    \/ TagParse
    \/ TagGetLen
    \/ TagReadSub

SpecTag == InitBuf /\ [][NextTag]_vars

\* C5: when the TLV of a non-zero tag t and content b has been appended to an
\* empty error-free Dynamic Buffer and a Parse Buffer is set on the bytes
\* produced, getTagLength(t) is the header length plus len(b), and
\* tryReadTagSub(t) returns the same and gives a child whose span is b
C5_TlvRoundTrip ==
    LET b   == hist.fin.c
        hdr == IF Len(b) < 128 THEN 2 ELSE IF Len(b) < 256 THEN 3
               ELSE IF Len(b) < 65536 THEN 4 ELSE 5
    IN  ( /\ pc \in {"parsing", "read"}
          /\ hist.fin.how = "appendAsn1Tag"
          /\ out.op \in {"getTagLen", "tryReadTagSub"}
          /\ out.arg = hist.fin.cap )
        => /\ out.loc = hdr + Len(b)
           /\ out.op = "tryReadTagSub"
                => /\ pbs[2].err = 0
                   /\ pbs[2].start = pbs[1].start + hdr
                   /\ MemRead(heap, pbs[2].start, pbs[2].end - pbs[2].start) = b

C5_Witness ==
    /\ pc = "read"
    /\ hist.fin.how = "appendAsn1Tag"
    /\ out.op = "tryReadTagSub"
    /\ out.arg = hist.fin.cap
    /\ Len(hist.fin.c) = 128
    /\ out.loc = 131
    /\ MemRead(heap, pbs[2].start, pbs[2].end - pbs[2].start) = hist.fin.c

(***************************************************************************)
(* SpecTlv: a caller that has the TLV encoder write the length field of a  *)
(* length L and then sets a Parse Buffer on data that starts with a tag    *)
(* and a length field for L, the encoder's or a long form of k length      *)
(* bytes, and asks for the tag's length.  Of the data the model keeps the  *)
(* first TlvKept bytes; the call looks at no more than six.                *)
(***************************************************************************)
TlvKept == 140

TlvParts == {0, 1, 127, 128, 255, 256, 16383, 16384, 65535}

\* the four bytes of a length, most significant first
TlvDigits(L) == <<L[1] \div 256, L[1] % 256, L[2] \div 256, L[2] % 256>>

TlvEncode ==
    /\ pc = "new"
    /\ \E hi \in TlvParts, lo \in TlvParts :
         /\ out' = [op |-> "output_len", i |-> len_of_tag_and_len(<<hi, lo>>),
                    arg |-> <<hi, lo>>, loc |-> output_len(<<hi, lo>>), pre |-> <<>>]
         /\ hist' = [hist EXCEPT !.n = @ + 1]
    /\ pc' = "encoded"
    /\ UNCHANGED <<asnvars, heap, dbs, pbs>>

\* k = 0 takes the field the encoder wrote, k > 0 the long form of k bytes
TlvParse ==
    /\ pc = "encoded"
    /\ \E k \in 0..4, tag \in {4, 48} :
         LET L     == out.arg
             D     == TlvDigits(L)
             field == IF k = 0 THEN out.loc ELSE <<128 + k>> \o SubSeq(D, 5 - k, 4)
             canon == k = 0 \/ ((L[1] # 0 \/ L[2] >= 128) /\ D[5 - k] # 0)
             hdr   == <<tag>> \o field
         IN  /\ \A j \in 1..(4 - k) : k = 0 \/ D[j] = 0
             /\ \E n \in {Len(hdr), 131} \cup
                         (IF L[1] <= 16384 THEN {Len(hdr) + WVal(L)} ELSE {}) :
                  \E M \in {psParseBufFromStaticData(
                              [heap |-> <<[st |-> "static",
                                           bytes |-> hdr \o [j \in 1..(Min(n, TlvKept) - Len(hdr)) |-> 0]]>>,
                               dbs |-> <<>>, trap |-> hist.trap, loc |-> NULL],
                              Stride, n)} :
                      ParseCommit(M, "fromStaticData", n, hist.exp,
                                  [p |-> out.loc, c |-> field, z |-> <<>>,
                                   how |-> IF canon THEN "minimal" ELSE "nonminimal",
                                   cap |-> L])
    /\ pc' = "parsing"
    /\ UNCHANGED <<asnvars, dbs>>

TlvGetLen ==
    /\ pc = "parsing"
    /\ \E tag \in {0, 4, 48} :
         ParseCommit([ParseCur EXCEPT !.loc = psParseBufGetTagLen(heap, pbs[1], tag).len],
                     "getTagLen", tag, hist.exp, hist.fin)
    /\ pc' = "measured"
    /\ UNCHANGED <<asnvars, dbs>>

NextTlv ==
    \/ TlvEncode
    \/ TlvParse
    \/ TlvGetLen

SpecTlv == InitBuf /\ [][NextTlv]_vars

\* the digits without their leading zeros
RECURSIVE StripZeros(_)
StripZeros(d) == IF d # <<>> /\ d[1] = 0 THEN StripZeros(Tail(d)) ELSE d

\* the shortest DER length field of L
MinimalField(L) ==
    IF L[1] = 0 /\ L[2] < 128 THEN <<L[2]>>
    ELSE <<128 + Len(StripZeros(TlvDigits(L)))>> \o StripZeros(TlvDigits(L))

\* C6: for every length L below 2^32 the encoder's length field is the
\* shortest DER form (one byte below 128, else 0x81..0x84 and the fewest
\* big-endian bytes, the first non-zero) and the header length it reserves is
\* one more than that field; getTagLength returns 0 for every long-form
\* header that is not minimal (0x81 with a value below 128, or 0x82 / 0x83 /
\* 0x84 with a zero first length byte)
C6_CanonicalLength ==
    /\ out.op = "output_len"
         => /\ out.loc = MinimalField(out.arg)
            /\ out.i = 1 + Len(MinimalField(out.arg))
    /\ (out.op = "getTagLen" /\ hist.fin.how = "nonminimal") => out.loc = 0

C6_Witness ==
    /\ out.op = "getTagLen"
    /\ hist.fin.how = "nonminimal"
    /\ hist.fin.c[1] = 130 /\ hist.fin.c[2] = 0
    /\ hist.fin.p = <<129, 255>>
    /\ pbs[1].end - pbs[1].start >= 131
    /\ out.arg = MemRead(heap, pbs[1].start, 1)[1]
    /\ out.loc = 0

(***************************************************************************)
(* SpecParse: a caller that sets a Parse Buffer on static data, opens      *)
(* children on tags (up to ParseDepth structures), skips tags in the       *)
(* innermost structure and finishes children, MaxParseOps calls in all.    *)
(***************************************************************************)
MaxParseOps == 5

ParseDepth == 3

ParseTags == {48, 2, 4}

\* a SEQUENCE of two INTEGERs;
\* a SEQUENCE of two items and an item behind it; a SEQUENCE in a SEQUENCE;
\* a SEQUENCE longer than the data; a SEQUENCE with a long-form length
ParseInputs ==
    { <<48, 6, 2, 1, 5, 2, 1, 250>>,
      <<48, 6, 2, 1, 5, 4, 1, 9, 2, 1, 7>>,
      <<48, 8, 48, 3, 2, 1, 5, 4, 1, 9, 4, 0>>,
      <<48, 9, 2, 1, 5>>,
      <<48, 129, 128, 2, 1, 5, 4, 123>> \o [j \in 1..123 |-> j] }

ParseStart ==
    /\ pc = "new"
    /\ \E data \in ParseInputs :
         \E M \in {psParseBufFromStaticData(
                     [heap |-> <<[st |-> "static", bytes |-> data]>>,
                      dbs |-> <<>>, trap |-> hist.trap, loc |-> NULL],
                     Stride, Len(data))} :
             ParseCommit(M, "fromStaticData", Len(data),
                         <<Opened("fromStaticData", 0)>>, hist.fin)
    /\ pc' = "parsing"
    /\ UNCHANGED <<asnvars, dbs>>

ParseCanCall == pc = "parsing" /\ hist.n < MaxParseOps

\* the address at which the tag read by a call that returned M.loc ends
SpanEnd(M) == IF M.loc # 0 THEN pbs[Len(pbs)].start + M.loc ELSE 0

ParseTryReadTagSub ==
    /\ ParseCanCall /\ Len(pbs) < ParseDepth
    /\ \E tag \in ParseTags :
         \E M \in {psParseBufTryReadTagSub(ParseCur, Len(pbs), tag)} :
             ParseCommit(M, "tryReadTagSub", tag,
                         hist.exp \o <<Opened("tryReadTagSub", SpanEnd(M))>>, hist.fin)
    /\ UNCHANGED <<pc, asnvars, dbs>>

ParseReadTagSub ==
    /\ ParseCanCall /\ Len(pbs) < ParseDepth
    /\ \E tag \in ParseTags :
         \E M \in {psParseBufReadTagSub(ParseCur, Len(pbs), tag)} :
             ParseCommit(M, "readTagSub", tag,
                         hist.exp \o <<Opened("readTagSub", SpanEnd(M))>>, hist.fin)
    /\ UNCHANGED <<pc, asnvars, dbs>>

ParseTrySkipTag ==
    /\ ParseCanCall
    /\ \E tag \in ParseTags :
         \E M \in {psParseBufTrySkipTag(ParseCur, Len(pbs), tag)} :
             ParseCommit(M, "trySkipTag", tag, hist.exp, hist.fin)
    /\ UNCHANGED <<pc, asnvars, dbs>>

ParseSkipTag ==
    /\ ParseCanCall
    /\ \E tag \in ParseTags :
         \E M \in {psParseBufSkipTag(ParseCur, Len(pbs), tag)} :
             ParseCommit(M, "skipTag", tag, hist.exp, hist.fin)
    /\ UNCHANGED <<pc, asnvars, dbs>>

\* the local structure is gone when the call returns; hist.fin.p is what
\* the call stored to ref
ParseReadTagRef ==
    /\ ParseCanCall
    /\ \E tag \in ParseTags :
         \E M \in {psParseBufReadTagRef(ParseCur, Len(pbs), tag)} :
             ParseCommit([M EXCEPT !.dbs = SubSeq(@, 1, Len(pbs))], "readTagRef", tag,
                         hist.exp,
                         IF M.loc # 0
                         THEN [NoFin EXCEPT
                                 !.how = "readTagRef",
                                 !.p = [buf   |-> M.dbs[Len(pbs) + 1].buf,
                                        start |-> M.dbs[Len(pbs) + 1].start,
                                        end   |-> M.dbs[Len(pbs) + 1].end,
                                        size  |-> M.dbs[Len(pbs) + 1].size]]
                         ELSE hist.fin)
    /\ UNCHANGED <<pc, asnvars, dbs>>

\* getAsnInteger(&pb->buf.start, pb->buf.end - pb->buf.start, &val) on the
\* innermost structure; what it returned goes to the record of that structure
ParseInteger ==
    /\ ParseCanCall
    /\ LET pb == pbs[Len(pbs)]
           r  == getAsnInteger(IF pb.start = NULL THEN <<>> ELSE heap[Region(pb.start)].bytes,
                               Offset(pb.start), pb.end - pb.start)
       IN  ParseCommit([ParseCur EXCEPT !.dbs[Len(pbs)].start = (@ - Offset(@)) + r.p,
                                        !.loc = r.rc],
                       "getAsnInteger", 0,
                       [hist.exp EXCEPT ![Len(pbs)].c = Append(@, [rc |-> r.rc, val |-> r.val])],
                       hist.fin)
    /\ UNCHANGED <<pc, asnvars, dbs>>

\* the finished structure leaves the chain
ParseFinish ==
    /\ ParseCanCall /\ Len(pbs) >= 2
    /\ \E M \in {psParseBufFinish(ParseCur, Len(pbs))} :
         ParseCommit([M EXCEPT !.dbs = SubSeq(@, 1, Len(pbs) - 1)], "finish", 0,
                     SubSeq(hist.exp, 1, Len(pbs) - 1),
                     [NoFin EXCEPT !.how = hist.exp[Len(pbs)].how,
                                   !.cap = hist.exp[Len(pbs)].cap,
                                   !.c = hist.exp[Len(pbs)].c,
                                   !.z = <<"finish">>])
    /\ UNCHANGED <<pc, asnvars, dbs>>

\* the cancelled structure leaves the chain; hist.fin.p is what the call
\* left in it
ParseCancel ==
    /\ ParseCanCall /\ Len(pbs) >= 2
    /\ \E M \in {psParseBufCancel(ParseCur, Len(pbs))} :
         ParseCommit([M EXCEPT !.dbs = SubSeq(@, 1, Len(pbs) - 1)], "cancel", 0,
                     SubSeq(hist.exp, 1, Len(pbs) - 1),
                     [NoFin EXCEPT !.p = M.dbs[Len(pbs)],
                                   !.how = hist.exp[Len(pbs)].how,
                                   !.cap = hist.exp[Len(pbs)].cap,
                                   !.c = hist.exp[Len(pbs)].c,
                                   !.z = <<"cancel">>])
    /\ UNCHANGED <<pc, asnvars, dbs>>

\* the outermost structure is finished or cancelled: the end of the parse
ParseClose ==
    /\ pc = "parsing" /\ Len(pbs) = 1
    /\ \/ \E M \in {psParseBufFinish(ParseCur, 1)} :
            ParseCommit(M, "finish", 0, hist.exp, hist.fin)
       \/ \E M \in {psParseBufCancel(ParseCur, 1)} :
            ParseCommit(M, "cancel", 0, hist.exp, hist.fin)
    /\ pc' = "closed"
    /\ UNCHANGED <<asnvars, dbs>>

NextParse ==
    \/ ParseStart
    \/ ParseTryReadTagSub
    \/ ParseReadTagSub
    \/ ParseTrySkipTag
    \/ ParseSkipTag
    \/ ParseReadTagRef
    \/ ParseInteger
    \/ ParseFinish
    \/ ParseCancel
    \/ ParseClose

SpecParse == InitBuf /\ [][NextParse]_vars

\* C10: when a child Parse Buffer with a master is finished, if the child's
\* error count is zero the master's read cursor is at the end of the whole
\* tag the child was opened on, however much of the child was read, and the
\* master's error count is as before; otherwise the master's error count has
\* increased and its read cursor is as before; finish returns failure
\* exactly when the child's error count was non-zero
C10_FinishChild ==
    (out.op = "finish" /\ out.pre[out.i].master # 0)
    => LET child == out.pre[out.i]
           m     == child.master
       IN  IF child.err = 0
           THEN /\ pbs[m].start = hist.fin.cap
                /\ pbs[m].err = out.pre[m].err
                /\ out.loc = PS_SUCCESS
           ELSE /\ pbs[m].err > out.pre[m].err
                /\ pbs[m].start = out.pre[m].start
                /\ out.loc = PS_FAILURE

C10_Witness ==
    /\ out.op = "finish"
    /\ out.pre[out.i].master = 1
    /\ out.pre[out.i].err = 0
    /\ out.pre[out.i].start > out.pre[out.i].buf
    /\ out.pre[out.i].start < out.pre[out.i].end
    /\ pbs[1].start = hist.fin.cap
    /\ pbs[1].start < pbs[1].end
    /\ out.loc = PS_SUCCESS

\* C11: when a child with a master is torn down with error count e > 0
\* (psDynBufSubFinish, psParseBufFinish), the master's error count afterwards
\* is its error count before plus e
C11_ErrorsFoldAdditively ==
    /\ (out.op = "finish" /\ out.pre[out.i].master # 0 /\ out.pre[out.i].err > 0)
         => pbs[out.i - 1].err = out.pre[out.i - 1].err + out.pre[out.i].err
    /\ (out.op = "subFinish" /\ out.pre[out.i].master # 0 /\ out.pre[out.i].err > 0)
         => dbs[out.i - 1].err = out.pre[out.i - 1].err + out.pre[out.i].err

\* C12: with at most one open child per parent, once an appendSize,
\* prependSize, appendUtf8, appendAsn1Tag, subInit or subInitAt call on any
\* buffer of the tree has returned no location, the root's error count is
\* non-zero whenever every sub-buffer has been closed with subFinish, and
\* psDynBufDetach on the root then returns no memory and leaves the root
\* without an allocation
C12_FailureReachesRoot ==
    /\ (hist.nul /\ pc = "open" /\ Top = 1) => dbs[1].err # 0
    /\ (hist.nul /\ out.op = "detach")
         => /\ out.loc = NULL
            /\ dbs[1].buf = NULL
            /\ \A k \in 1..Len(heap) : heap[k].st # "live"

(***************************************************************************)
(* SpecBuf: a caller of either kind, one that works on a Dynamic Buffer    *)
(* as in SpecDyn or one that parses static data as in SpecParse.           *)
(***************************************************************************)
NextBuf ==
    \/ NextDyn
    \/ NextParse

SpecBuf == InitBuf /\ [][NextBuf]_vars

\* C13: whatever the capacity and the calls made on a root buffer and its
\* sub-buffers, with any allocation failing: no region is released twice or
\* released without being an allocation, static data a buffer wraps is never
\* released, and once the root is uninitialised or detached every region
\* that was allocated has been released, but for the copy detach returned
C13_NoLeakNoDoubleRelease ==
    /\ "free" \notin hist.trap
    /\ pbs # <<>> => \A k \in 1..Len(heap) : heap[k].st = "static"
    /\ (pc = "closed" /\ pbs = <<>>)
         => \A k \in 1..Len(heap) :
              \/ heap[k].st = "freed"
              \/ out.op = "detach" /\ out.loc = Stride * k /\ heap[k].st = "live"

C13_Witness ==
    /\ pc = "closed"
    /\ out.op = "uninit"
    /\ Len(heap) >= 2
    /\ hist.fin.how = "subInit"
    /\ \A k \in 1..Len(heap) : heap[k].st = "freed"

\* C14: with at most one open child per parent, after any calls every buffer
\* whose error count is zero has origin <= start <= end <= origin + capacity,
\* and every open sub-buffer whose error count is zero has no pool and its
\* whole region [origin, origin + capacity] inside its master's [start, end]
C14_BufferInvariants ==
    \A k \in 1..Len(dbs) :
        dbs[k].err = 0
        => /\ dbs[k].buf <= dbs[k].start
           /\ dbs[k].start <= dbs[k].end
           /\ dbs[k].end <= dbs[k].buf + dbs[k].size
           /\ dbs[k].master # 0
                => /\ dbs[k].pool = NoPool
                   /\ dbs[dbs[k].master].start <= dbs[k].buf
                   /\ dbs[k].buf + dbs[k].size <= dbs[dbs[k].master].end

\* C15: on the eight bytes 30 06 02 01 05 02 01 FA, opening the SEQUENCE as a
\* child of a Parse Buffer over the bytes and decoding two INTEGERs from the
\* child gives 5 and then -6 and leaves nothing of the child's content
\* unread; the child and then the outer buffer finish with error count zero,
\* and the outer read cursor ends at byte offset 8
C15_SequenceOfTwoIntegers ==
    ( /\ heap # <<>> /\ pbs # <<>>
      /\ heap[1].bytes = <<48, 6, 2, 1, 5, 2, 1, 250>>
      /\ out.op = "finish"
      /\ hist.fin.how = "readTagSub" /\ hist.fin.cap # 0
      /\ hist.fin.z = <<"finish">>
      /\ Len(hist.fin.c) = 2 )
    => /\ (hist.n = 5 /\ out.i = 2)
            => /\ hist.fin.c = <<[rc |-> PS_SUCCESS, val |-> 5],
                                [rc |-> PS_SUCCESS, val |-> -6]>>
               /\ out.pre[2].start = out.pre[2].end
               /\ out.pre[2].err = 0 /\ out.loc = PS_SUCCESS
               /\ pbs[1].err = 0
               /\ pbs[1].start = Stride + 8
       /\ (hist.n = 6 /\ pc = "closed")
            => /\ hist.fin.c = <<[rc |-> PS_SUCCESS, val |-> 5],
                                [rc |-> PS_SUCCESS, val |-> -6]>>
               /\ out.pre[1].err = 0 /\ out.loc = PS_SUCCESS
               /\ out.pre[1].start = Stride + 8

C15_Witness ==
    /\ pbs # <<>>
    /\ heap[1].bytes = <<48, 6, 2, 1, 5, 2, 1, 250>>
    /\ pc = "closed" /\ hist.n = 6
    /\ out.op = "finish" /\ out.loc = PS_SUCCESS
    /\ out.pre[1].start = Stride + 8
    /\ hist.fin.how = "readTagSub" /\ hist.fin.z = <<"finish">>
    /\ hist.fin.c = <<[rc |-> PS_SUCCESS, val |-> 5], [rc |-> PS_SUCCESS, val |-> -6]>>

\* C16: appending content of 130 bytes with tag 0x04 through appendAsn1Tag to
\* an empty Dynamic Buffer gives exactly 133 bytes: 0x04, 0x81, 0x82 and then
\* the 130 content bytes as they were
C16_Header130 ==
    ( /\ out.op = "appendAsn1Tag" /\ out.loc # NULL
      /\ hist.fin.cap = 4 /\ Len(hist.fin.c) = 130 /\ hist.fin.p = <<>> )
    => /\ dbs[1].end - dbs[1].start = 133
       /\ out.loc = dbs[1].start
       /\ MemRead(heap, dbs[1].start, 3) = <<4, 129, 130>>
       /\ MemRead(heap, dbs[1].start + 3, 130) = hist.fin.c

C16_Witness ==
    /\ out.op = "appendAsn1Tag" /\ out.loc # NULL
    /\ hist.fin.cap = 4 /\ hist.fin.c = TagContent(130) /\ hist.fin.p = <<>>
    /\ Filled(heap, dbs[1]) = <<4, 129, 130>> \o TagContent(130)

\* C17 as stated: the largest content length getTagLength accepts is
\* 2^30 - 1; for every header whose decoded content length is 2^30 or more
\* it returns 0 however many bytes the Parse Buffer has
C17_MaximumBelowGigabyte ==
    (out.op = "getTagLen" /\ ~WLt(hist.fin.cap, PS_PARSE_MAXIMUM_TAG_CONTENT))
    => out.loc = 0

\* C17: the largest content length getTagLength accepts is 2^30: a minimal
\* header for 2^30 content bytes with the tag asked for and all its bytes
\* available gives header plus content, and for every header whose decoded
\* content length is above 2^30 it returns 0 however many bytes the Parse
\* Buffer has
C17_MaximumGigabyte ==
    /\ (out.op = "getTagLen" /\ WLt(PS_PARSE_MAXIMUM_TAG_CONTENT, hist.fin.cap))
         => out.loc = 0
    /\ ( /\ out.op = "getTagLen" /\ hist.fin.cap = PS_PARSE_MAXIMUM_TAG_CONTENT
         /\ hist.fin.how = "minimal"
         /\ out.arg \in {0, MemRead(heap, pbs[1].start, 1)[1]}
         /\ pbs[1].end - pbs[1].start >= 6 + WVal(hist.fin.cap) )
         => out.loc = 6 + WVal(hist.fin.cap)

C17_Witness ==
    /\ out.op = "getTagLen"
    /\ hist.fin.cap = <<16384, 1>>
    /\ hist.fin.c = <<132, 64, 0, 0, 1>>
    /\ out.arg = MemRead(heap, pbs[1].start, 1)[1]
    /\ pbs[1].end - pbs[1].start = 6 + WVal(hist.fin.cap)
    /\ out.loc = 0

\* C18: psParseBufCancel on a child Parse Buffer, whatever the child's error
\* count and however much of it was read, leaves the master's read cursor,
\* end and error count (and the rest of the master) as they were, releases
\* no memory, and leaves the child empty: no data, no span, error count 0,
\* no pool, no master
C18_CancelChild ==
    (out.op = "cancel" /\ out.pre[out.i].master # 0)
    => LET m == out.pre[out.i].master
       IN  /\ pbs[m].start = out.pre[m].start
           /\ pbs[m].end = out.pre[m].end
           /\ pbs[m].err = out.pre[m].err
           /\ pbs[m] = out.pre[m]
           /\ "free" \notin hist.trap
           /\ \A k \in 1..Len(heap) : heap[k].st = "static"
           /\ hist.fin.p = [buf |-> NULL, start |-> NULL, end |-> NULL, size |-> 0,
                            pool |-> NoPool, err |-> 0, master |-> 0]

C18_Witness ==
    /\ out.op = "cancel" /\ out.i >= 2
    /\ out.pre[out.i].master = out.i - 1
    /\ out.pre[out.i].err > 0
    /\ out.pre[out.i].start > out.pre[out.i].buf
    /\ pbs[out.i - 1].err = 0
    /\ pbs[out.i - 1].start < pbs[out.i - 1].end
    /\ hist.fin.p.buf = NULL /\ hist.fin.p.master = 0

\* the operations that read or skip a tag of a Parse Buffer
TagOps == {"tryReadTagSub", "readTagSub", "readTagRef", "trySkipTag", "skipTag"}

\* C19: once a Parse Buffer's error count is non-zero, every later
\* tryReadTagSub, readTagSub, readTagRef, trySkipTag and skipTag on it
\* returns 0 and leaves its read cursor where it was, also when a
\* well-formed tag with the tag byte asked for is at the cursor
C19_ErrorStopsReading ==
    (out.op \in TagOps /\ out.pre[out.i].err # 0)
    => /\ out.loc = 0
       /\ pbs[out.i].start = out.pre[out.i].start

\* the assertions of the Dynamic Buffer, by line: the sub-buffer checks of
\* assert_subbuf, the location checks after a grow, and the check of the
\* fixed-buffer prepend reservation
Assertions ==
    {"assert:192", "assert:197", "assert:200", "assert:201",
     "assert:284", "assert:305", "assert:367", "assert:139"}

\* C20: in every sequence of Dynamic Buffer operations with at most one open
\* child per parent, allocation failing where it may and failed sub-buffers
\* still written to and finished, none of the assertions fires
C20_NoAssertionFires == hist.trap \cap Assertions = {}

(***************************************************************************)
(* Claims about psDynBufGrow, reached through psDynBufAppendSize and       *)
(* psDynBufPrependSize when the buffer has no room for the size asked for. *)
(* They compare the state before a call with the state after it.           *)
(***************************************************************************)
\* the call made in this step goes to psDynBufGrow
GrowCalled ==
    /\ Top >= 1
    /\ \/ out'.op = "appendSize" /\ psBufAppendSize(dbs[Top], out'.arg).loc = NULL
       \/ out'.op = "prependSize" /\ psBufPrependSize(dbs[Top], out'.arg).loc = NULL

\* the allocation at the root of the chain was asked for and failed
GrowAllocFailed ==
    /\ GrowCalled
    /\ \A k \in 1..Top : dbs[k].err = 0
    /\ out'.loc = NULL

\* no region was allocated or released in this step
HeapKept ==
    /\ Len(heap') = Len(heap)
    /\ \A r \in 1..Len(heap) : heap'[r].st = heap[r].st

\* C21 as stated: when the allocation needed by Grow fails, Grow returns no
\* location, the error count of every buffer from the root to the buffer
\* that asked is one higher, and origin, start, end, capacity and the filled
\* bytes of each of them are as before, the old allocation still owned
C21_GrowFailureKeepsAll ==
    [][GrowAllocFailed
       => /\ HeapKept
          /\ \A k \in 1..Top :
               /\ dbs'[k] = [dbs[k] EXCEPT !.err = @ + 1]
               /\ Filled(heap', dbs'[k]) = Filled(heap, dbs[k])]_vars


\* the bytes of buffer k of chain d in memory h that are not in the span of
\* its open sub-buffer: what lies before the span and what lies behind it
\* (all its filled bytes when it has no sub-buffer); s is the chain that
\* tells where the span is
Outside(h, d, s, k) ==
    IF k = Len(d) THEN <<Filled(h, d[k])>>
    ELSE <<MemRead(h, d[k].start, s[k + 1].buf - s[k].start),
           MemRead(h, d[k].start + ((s[k + 1].buf + s[k + 1].size) - s[k].start),
                   s[k].end - (s[k + 1].buf + s[k + 1].size))>>

\* C21: when the allocation needed by Grow fails, Grow returns no location,
\* the error count of every buffer from the root to the buffer that asked is
\* one higher, origin, start, end and capacity of each of them are as
\* before, the filled bytes of the buffer that asked and the bytes of each
\* master before and behind its sub-buffer's span are as before, and the old
\* allocation is still owned; the unused room of a sub-buffer, which lies in
\* its master's filled bytes, may hold other marker bytes than before
C21_GrowFailureKeepsContent ==
    [][GrowAllocFailed
       => /\ HeapKept
          /\ \A k \in 1..Top :
               /\ dbs'[k] = [dbs[k] EXCEPT !.err = @ + 1]
               /\ Outside(heap', dbs', dbs, k) = Outside(heap, dbs, dbs, k)]_vars

C21_Witness ==
    /\ out.op = "appendSize" /\ out.loc = NULL
    /\ Top = NestDepth
    /\ \A k \in 1..Top :
         /\ out.pre[k].err = 0 /\ dbs[k] = [out.pre[k] EXCEPT !.err = 1]
    /\ dbs[Top].start > dbs[Top].buf
    /\ MemRead(heap, dbs[Top].buf, 1) = <<40>>
    /\ \A k \in 1..(Top - 1) :
         /\ hist.exp[k].c # <<>>
         /\ MemRead(heap, dbs[k].start, Len(hist.exp[k].c)) = hist.exp[k].c
    /\ heap[Len(heap)].st = "live"
    /\ dbs[1].buf = Stride * Len(heap)


\* the unused room of a buffer before and behind its filled bytes
HeadRoom(b) == b.start - b.buf
TailRoom(b) == (b.buf + b.size) - b.end

\* what the claim takes a demand of n bytes to add
Rounded(n) == IF n = 0 THEN 0 ELSE IF n < PS_DYNBUF_GROW THEN PS_DYNBUF_GROW ELSE n

\* the call made in this step grew the root buffer, which owns its region
GrowRootDone ==
    /\ GrowCalled /\ Top = 1
    /\ dbs[1].err = 0 /\ dbs[1].master = 0
    /\ out'.loc # NULL

\* C22: after a successful Grow(headNeeded, tailNeeded) on a root buffer the
\* head room is the old one plus headNeeded rounded up to the grow increment
\* (nothing when headNeeded is 0), the tail room the old one plus tailNeeded
\* rounded likewise (nothing when it is 0), the capacity their sum with the
\* filled length, and the filled content is unchanged; seen after the call
\* that asked for the room has taken its size from it, so that a prependSize
\* that grows leaves the tail room as it was
C22_GrowAddsWhatIsNeeded ==
    [][GrowRootDone
       => LET sz   == out'.arg
              head == IF out'.op = "prependSize" THEN sz ELSE 0
              tail == IF out'.op = "appendSize" THEN sz ELSE 0
          IN  /\ HeadRoom(dbs'[1]) + head = HeadRoom(dbs[1]) + Rounded(head)
              /\ TailRoom(dbs'[1]) + tail = TailRoom(dbs[1]) + Rounded(tail)
              /\ dbs'[1].size = HeadRoom(dbs'[1]) + (dbs'[1].end - dbs'[1].start)
                                  + TailRoom(dbs'[1])
              /\ MemRead(heap', dbs'[1].start + head, dbs[1].end - dbs[1].start)
                   = Filled(heap, dbs[1])]_vars


(***************************************************************************)
(* SpecCons: a caller that builds constructed tags outside-in: it opens a  *)
(* tag in a root buffer with psDynBufBeginConstructedTag, writes content,  *)
(* opens further tags inside, and closes each with                        *)
(* psDynBufEndConstructedTag.  hist.exp holds what the caller wrote and,   *)
(* for a closed tag, the TLV the caller expects in its place.  A buffer    *)
(* that holds ConsLong bytes or more is not written to again, and such a   *)
(* content goes to the first tag opened at a depth.                        *)
(***************************************************************************)
MaxConsOps == 6

\* from this length on the header does not fit the reserved head room
ConsLong == 65536
ConsSizes == {1, 16, 17, 130, ConsLong}
ConsTags == {48, 49}

DoBeginConstructedTag(sub0, ok) ==
    \E M \in {psDynBufBeginConstructedTag(Cur, Top, sub0, ok)} :
        Commit(M, "beginConstructedTag", 0, hist.exp \o <<Opened("begin", 20)>>,
               hist.fin, 0)

\* the TLV takes the place of the sub-buffer in the master's content
DoEndConstructedTag(tag, ok) ==
    \E M \in {psDynBufEndConstructedTag(Cur, Top, tag, ok)} :
        Commit([M EXCEPT !.dbs = SubSeq(@, 1, Top - 1)], "endConstructedTag", tag,
               [SubSeq(hist.exp, 1, Top - 1) EXCEPT
                   ![Top - 1].c = @ \o <<tag>>
                                    \o MinimalField(WNat(Len(hist.exp[Top].c)))
                                    \o hist.exp[Top].c],
               [p |-> hist.exp[Top - 1].c, c |-> hist.exp[Top].c, z |-> <<>>,
                how |-> "begin", cap |-> tag], 0)

ConsStart ==
    /\ pc = "new"
    /\ \E capacity \in {0, 4}, ok \in BOOLEAN : DoInit(capacity, ok)
    /\ pc' = "open"
    /\ UNCHANGED <<asnvars, pbs>>

ConsFill ==
    /\ pc = "open" /\ Top = 1 /\ NestClean
    /\ hist.n < MaxConsOps
    /\ hist.exp[1].c = <<>>
    /\ DoAppendSize(3, TRUE)
    /\ UNCHANGED <<pc, asnvars, pbs>>

ConsBegin ==
    /\ pc = "open" /\ Top < NestDepth /\ NestClean
    /\ hist.n < MaxConsOps
    /\ Len(hist.exp[Top].c) < ConsLong
    /\ \E sub0 \in SubGarbage, ok \in BOOLEAN : DoBeginConstructedTag(sub0, ok)
    /\ UNCHANGED <<pc, asnvars, pbs>>

\* the innermost buffer is empty and is the first at its depth, the
\* buffers around it holding no more than a first short write
ConsFirst ==
    /\ hist.exp[Top].c = <<>>
    /\ hist.fin.how = "none"
    /\ \A k \in 1..(Top - 1) : Len(hist.exp[k].c) < 4

ConsWrite ==
    /\ pc = "open" /\ Top >= 2 /\ NestClean
    /\ hist.n < MaxConsOps
    /\ Len(hist.exp[Top].c) < ConsLong
    /\ \E sz \in ConsSizes, ok \in BOOLEAN :
         /\ sz >= ConsLong => ConsFirst
         /\ DoAppendSize(sz, ok)
    /\ UNCHANGED <<pc, asnvars, pbs>>

ConsEnd ==
    /\ pc = "open" /\ Top >= 2
    /\ \E tag \in ConsTags, ok \in BOOLEAN : DoEndConstructedTag(tag, ok)
    /\ UNCHANGED <<pc, asnvars, pbs>>

NextCons ==
    \/ ConsStart
    \/ ConsFill
    \/ ConsBegin
    \/ ConsWrite
    \/ ConsEnd

SpecCons == InitBuf /\ [][NextCons]_vars

\* C23: for every parent content P, tag t and content C of any length
\* (within, at or beyond the 16 bytes behind the reserved head room, and so
\* long that the header needs more than the 4 reserved bytes),
\* beginConstructedTag, appending C to the child and endConstructedTag(t)
\* without a failed allocation leave the parent's filled content equal to
\* P, t, the minimal DER length of |C| and C, with no gap; also when
\* constructed tags are nested inside one another
C23_ConstructedTag ==
    ( /\ out.op = "endConstructedTag" /\ out.loc # NULL
      /\ \A k \in 1..Len(out.pre) : out.pre[k].err = 0
      /\ NestClean )
    => /\ hist.exp[Top].c = hist.fin.p \o <<hist.fin.cap>>
                              \o MinimalField(WNat(Len(hist.fin.c))) \o hist.fin.c
       /\ Filled(heap, dbs[Top]) = hist.exp[Top].c
       /\ dbs[Top].end - dbs[Top].start = Len(hist.exp[Top].c)

C23_Witness ==
    /\ out.op = "endConstructedTag" /\ out.loc # NULL
    /\ Top = 1 /\ dbs[1].err = 0
    /\ Len(hist.fin.p) = 3
    /\ Len(hist.fin.c) = 20
    /\ SubSeq(hist.fin.c, 2, 3) = <<49, 17>>
    /\ hist.fin.cap = 48
    /\ Filled(heap, dbs[1]) = hist.fin.p \o <<48, 20>> \o hist.fin.c
    /\ dbs[1].end - dbs[1].start = 25


(***************************************************************************)
(* Claims about reading and skipping tags (checked under SpecParse).       *)
(***************************************************************************)
\* the header of the tag at address a read byte by byte: its length and
\* the length of the content it announces
HeaderAt(h, a) ==
    LET b1 == MemRead(h, a + 1, 1)[1]
    IN  IF b1 < 128 THEN [hdr |-> 2, len |-> b1]
        ELSE [hdr |-> 2 + (b1 - 128),
              len |-> WVal(DigitsValue(MemRead(h, a + 2, b1 - 128)))]

\* C24: tryReadTagSub and readTagSub never move the parent's read cursor; on
\* success the child's span is the content of the tag at the parent's
\* cursor, a contiguous part of the parent's unread span, the child's error
\* count is 0 and its master the parent; on failure the child's error count
\* is not 0, tryReadTagSub leaves the parent's error count as it was and
\* readTagSub raises it by one
C24_ReadTagSub ==
    (out.op \in {"tryReadTagSub", "readTagSub"})
    => LET m == out.i
           p == out.pre[m]
           c == pbs[m + 1]
           H == HeaderAt(heap, p.start)
       IN  /\ Len(pbs) = m + 1
           /\ pbs[m] = [p EXCEPT !.err = IF out.loc = 0 /\ out.op = "readTagSub"
                                         THEN @ + 1 ELSE @]
           /\ out.loc # 0
                => /\ MemRead(heap, p.start, 1)[1] = out.arg
                   /\ out.loc = H.hdr + H.len
                   /\ c.buf = p.start + H.hdr /\ c.start = c.buf
                   /\ c.end = c.start + H.len /\ c.size = H.len
                   /\ p.start < c.start /\ c.end <= p.end
                   /\ c.err = 0 /\ c.master = m
           /\ out.loc = 0 => c.err # 0

C24_Witness ==
    /\ out.op = "readTagSub" /\ out.i = 2 /\ out.loc = 5
    /\ pbs[2] = out.pre[2]
    /\ pbs[2].start < pbs[2].end
    /\ pbs[3].start = pbs[2].start + 2 /\ pbs[3].end = pbs[2].start + 5
    /\ pbs[3].end < pbs[2].end
    /\ pbs[3].err = 0 /\ pbs[3].master = 2


\* C25: trySkipTag, skipTag and readTagRef return the length of header and
\* content of the tag at the cursor and advance the read cursor by just
\* that when getTagLength accepts the tag, readTagRef storing a view of the
\* content span; otherwise they return 0 and leave the cursor where it was,
\* trySkipTag with the error count unchanged, skipTag and readTagRef with
\* the error count raised by one
C25_SkipAndRef ==
    (out.op \in {"trySkipTag", "skipTag", "readTagRef"})
    => LET m == out.i
           p == out.pre[m]
           H == HeaderAt(heap, p.start)
       IN  /\ Len(pbs) = m
           /\ IF psParseBufGetTagLen(heap, p, out.arg).len # 0
              THEN /\ out.loc = H.hdr + H.len
                   /\ pbs[m] = [p EXCEPT !.start = @ + H.hdr + H.len]
                   /\ out.op = "readTagRef"
                        => hist.fin.p = [buf   |-> p.start + H.hdr,
                                         start |-> p.start + H.hdr,
                                         end   |-> p.start + H.hdr + H.len,
                                         size  |-> H.len]
              ELSE /\ out.loc = 0
                   /\ pbs[m] = [p EXCEPT !.err = IF out.op = "trySkipTag"
                                                 THEN @ ELSE @ + 1]

C25_Witness ==
    /\ out.op = "readTagRef" /\ out.i = 2 /\ out.loc = 3
    /\ out.arg = MemRead(heap, out.pre[2].start, 1)[1]
    /\ pbs[2].start = out.pre[2].start + 3
    /\ pbs[2].start < pbs[2].end
    /\ hist.fin.how = "readTagRef"
    /\ hist.fin.p.start = out.pre[2].start + 2 /\ hist.fin.p.size = 1


\* the offset just past the arcs of the OID whose tag is at offset o, for a
\* one-byte length
OidEnd(o) == o + 2 + ByteAt(mem, o + 1)

\* an OID with a one-byte length at offset o of mem, the NULL tag byte right
\* behind its arcs, and at least two bytes from there to offset e
NullAfterOid(o, e) ==
    /\ ByteAt(mem, o) = ASN_OID
    /\ ByteAt(mem, o + 1) < 128
    /\ ByteAt(mem, OidEnd(o)) = ASN_NULL
    /\ e - OidEnd(o) >= 2

\* C26: when getAsnAlgorithmIdentifier (getAsnOID with parameter checking)
\* finds the NULL tag byte right behind the OID and at least two bytes
\* remain there, it returns success, reports a parameter length of zero and
\* leaves the cursor two bytes behind the NULL tag byte, also when further
\* bytes of the enclosing SEQUENCE follow the NULL
C26_NullParameter ==
    /\ ( /\ pc = "done" /\ res.fn = "getAsnOID" /\ res.flag = 1
         /\ size >= 2 /\ NullAfterOid(0, size) )
         => /\ res.rc = PS_SUCCESS
            /\ res.len = WNat(0)
            /\ res.p = OidEnd(0) + 2
    /\ ( /\ pc = "done" /\ res.fn = "getAsnAlgorithmIdentifier"
         /\ size >= 4
         /\ ByteAt(mem, 0) = ASN_SEQUENCE + ASN_CONSTRUCTED
         /\ ByteAt(mem, 1) < 128 /\ 2 + ByteAt(mem, 1) <= size
         /\ NullAfterOid(2, 2 + ByteAt(mem, 1)) )
         => /\ res.rc = PS_SUCCESS
            /\ res.len = WNat(0)
            /\ res.p = OidEnd(2) + 2


C28_FailedChildHasError ==
    /\ (out.op \in {"subInit", "subInitAt"} /\ out.loc = NULL)
         => dbs[out.i + 1].err # 0
    /\ ( /\ out.op \in WriteOps /\ out.i >= 2
         /\ out.pre[out.i].buf = NULL /\ out.pre[out.i].size = 0 )
         => out.loc = NULL /\ hist.trap = {}
    /\ ( /\ out.op = "subFinish"
         /\ out.pre[out.i].buf = NULL /\ out.pre[out.i].size = 0 )
         => /\ out.loc = NULL
            /\ dbs[out.i - 1].err > out.pre[out.i - 1].err
            /\ dbs[out.i - 1] = [out.pre[out.i - 1] EXCEPT !.err = dbs[out.i - 1].err]


\* C29: each of getAsnLength32, getAsnSequence32, getAsnSet32, getAsnInteger,
\* getAsnEnumerated, getAsnOID and getAsnAlgorithmIdentifier leaves the
\* caller's cursor where it was when it returns a failure code, and on
\* success leaves it at an offset between 0 and the declared input length
C29_CursorOnFailure ==
    pc = "done"
    => /\ IsFail(res.rc) => res.p = 0
       /\ ~IsFail(res.rc) => (res.p >= 0 /\ res.p <= size)

=========================================================================
